---------------------------- MODULE Spec2Model ----------------------------
(***************************************************************************)
(* Verification model of the enclave-resident trust-and-state layer of the *)
(* substraTEE worker (Ternoa fork):                                        *)
(*   - the StateLedger: account nonces (stf_sgx_primitives.rs) and the     *)
(*     StatePayload integrity gate,                                        *)
(*   - the SecretShareVault (keyvault.rs) and the registry snapshot store  *)
(*     (nft_registry_storage_helper.rs) over the sealed file store,        *)
(*   - the bootstrap of the worker service (service/src/main.rs), its      *)
(*     parentchain synchronisation and its event dispatch loop.            *)
(* One specification per subsystem; the variables of the other subsystems  *)
(* stay at their initial value.                                            *)
(***************************************************************************)
EXTENDS Integers, Sequences, FiniteSets, TLC

VARIABLES
    state,      \* the key-value state of the STF: storage key -> Option<Vec<u8>>
    incCalls,   \* history: number of increment_nonce calls made per account
    fs,         \* the files on disk: path -> content
    dirs,       \* the directories on disk
    sealLog,    \* history: the payloads of the last two successful registry seals
    pc,         \* the stage the worker's start-up has reached
    cfg,        \* the run configuration: the dev and skip-ra flags
    chain,      \* what the parentchain node reports: balances, fees, deposit
    uxt,        \* the registration extrinsic the enclave produced
    signer,     \* the signer installed in the node API
    submitted,  \* the extrinsics sent to the parentchain, in order
    bootError,  \* the error the start-up ended with
    finalized,  \* the number of the parentchain's finalized head
    otherRegs,  \* per block: the number of other enclaves registered in it
    regHeader,  \* the header of the block that finalized the registration
    lightClient,\* the light client of the enclave: the headers it imported
    lastSynced, \* last_synced_header of start_worker and of the sync loop
    role,       \* whether the worker found itself primary or secondary
    syncLoop,   \* the parent_chain_sync_loop thread
    headQueue,  \* the channel of finalized-head notifications
    connected,  \* whether the sender of that channel is still alive
    eventSub,   \* whether the event subscription thread was started
    dispatch,   \* the main dispatch loop and what the last batch made it do
    enclaves,   \* two workers registering on one chain: stage, block, role
    threads,    \* two concurrent callers of one mutating operation
    lastOp      \* history: the last operation, its arguments and its result

ledgerVars == <<state, incCalls>>
storeVars == <<fs, dirs, sealLog>>
bootVarsOfStart == <<pc, cfg, chain, uxt, signer, submitted, bootError>>
syncVars == <<finalized, otherRegs, regHeader, lightClient, lastSynced, role,
              syncLoop, headQueue, connected, eventSub>>
otherVars == <<dispatch, enclaves, threads>>
bootVars == <<pc, cfg, chain, uxt, signer, submitted, bootError, syncVars, otherVars>>
vars == <<state, incCalls, fs, dirs, sealLog,
          pc, cfg, chain, uxt, signer, submitted, bootError,
          finalized, otherRegs, regHeader, lightClient, lastSynced, role,
          syncLoop, headQueue, connected, eventSub,
          dispatch, enclaves, threads, lastOp>>

(***************************************************************************)
(* Bounds of the model                                                     *)
(***************************************************************************)
\* largest nonce a stored record carries in the model; increment_nonce is
\* not taken beyond it
MaxNonce == 2

\* largest value of the Index type in the model, where the width of the
\* type matters; it stands for the largest value of the unsigned integer
MaxIndex == 3

\* largest registration fee the node reports, next to the saturating one
MaxFee == 2

\* number of the last parentchain block of the model
MaxBlock == 3

\* largest number of notifications waiting in the finalized-heads channel
MaxQueue == 2

\* largest number of events in one batch
MaxBatch == 2

\* largest number of messages the dispatch loop takes in one run
MaxBatches == 2

\* largest balance of the model: the value at which the saturating u128
\* arithmetic of the funding step saturates
MaxBalance == 100000

(***************************************************************************)
(* Common values                                                           *)
(***************************************************************************)
None == [some |-> FALSE, val |-> <<>>]
Some(v) == [some |-> TRUE, val |-> v]

NoOp == [op |-> "none"]

(***************************************************************************)
(* The files on disk and the sealed store (crate::io)                      *)
(***************************************************************************)
\* keyvault.rs: pub const STORAGE_PATH
STORAGE_PATH == "keyshare"

\* the path the registry snapshot is sealed to
RegistryPath == "hello_sealed_file"

NFTIds == {1, 2}

\* KeyvaultStorage::nft_sealed_file_path: "{path}/{nft_id}_Nft" with the
\* extension set to "bin"
nft_sealed_file_path(nft_id) ==
    STORAGE_PATH \o "/" \o ToString(nft_id) \o "_Nft" \o ".bin"

\* format!("{}.1", path)
BackupPath(path) == path \o ".1"

PrimaryPaths == {nft_sealed_file_path(id) : id \in NFTIds} \cup {RegistryPath}

\* the paths of the model: the sealed files, their backups, and where an
\* older backup generation would be
AllPaths ==
    PrimaryPaths \cup {BackupPath(p) : p \in PrimaryPaths}
                 \cup {BackupPath(BackupPath(p)) : p \in PrimaryPaths}
                 \cup {p \o ".2" : p \in PrimaryPaths}

ParentDir(path) ==
    IF \E id \in NFTIds : path = nft_sealed_file_path(id) THEN STORAGE_PATH ELSE "."

NoFile == [kind |-> "absent", bytes |-> <<>>]
SealedFile(bytes) == [kind |-> "sealed", bytes |-> bytes]

\* Path::is_file
is_file(files, path) == files[path].kind # "absent"

\* std::fs::copy(from, to): fails when the source does not exist
fs_copy(files, from, to) ==
    IF is_file(files, from)
    THEN [ok |-> TRUE, fs |-> [files EXCEPT ![to] = files[from]]]
    ELSE [ok |-> FALSE, fs |-> files]

\* io::seal, first part: a blob already at the path is copied to path + ".1"
io_seal_backup(files, path) == fs_copy(files, path, BackupPath(path)).fs

\* io::seal, second part: the parent directory is made to exist and the
\* bytes are written sealed to the path
io_seal_write(files, ds, bytes, path) ==
    [ok |-> TRUE,
     fs |-> [files EXCEPT ![path] = SealedFile(bytes)],
     dirs |-> ds \cup {ParentDir(path)}]

\* io::seal(bytes, path): the parent directory is made to exist, a blob
\* already at the path is copied to path + ".1", and the bytes are written
\* sealed to the path
io_seal(files, ds, bytes, path) ==
    io_seal_write(io_seal_backup(files, path), ds, bytes, path)

\* io::unseal(path): the bytes of the blob at the path, or an error when
\* there is none
io_unseal(files, path) ==
    IF files[path].kind = "sealed"
    THEN [ok |-> TRUE, bytes |-> files[path].bytes]
    ELSE [ok |-> FALSE, bytes |-> <<>>]

\* a header of the finalized chain: blocks are named by their number, the
\* parent of block n is block n - 1
Header(n) == [number |-> n, parent_hash |-> n - 1]
NoHeader == [number |-> -1, parent_hash |-> -1]

\* the parts of the worker that run after the registration, before any of
\* them has started
SyncIdle ==
    /\ finalized = 0
    /\ otherRegs = <<>>
    /\ regHeader = NoHeader
    /\ lightClient = <<>>
    /\ lastSynced = NoHeader
    /\ role = "undecided"
    /\ syncLoop = "not_started"
    /\ headQueue = <<>>
    /\ connected = TRUE
    /\ eventSub = FALSE

OthersIdle ==
    /\ dispatch = [program |-> "none", status |-> "not_started", handled |-> <<>>,
                   batches |-> 0]
    /\ enclaves = <<>>
    /\ threads = <<>>

\* the worker service before start_worker is entered
BootIdle ==
    /\ SyncIdle
    /\ OthersIdle
    /\ pc = "init"
    /\ cfg = [dev |-> FALSE, skip_ra |-> FALSE]
    /\ chain = [free_balance |-> 0, alice_free |-> 0, existential_deposit |-> 0,
                fee_details |-> [kind |-> "fee", fee |-> 0]]
    /\ uxt = "none"
    /\ signer = "Alice"
    /\ submitted = <<>>
    /\ bootError = "none"

StoreInit ==
    /\ fs = [p \in AllPaths |-> NoFile]
    /\ dirs = {"."}
    /\ sealLog = <<>>

(***************************************************************************)
(* StateLedger: stf_sgx_primitives.rs                                      *)
(***************************************************************************)
Accounts == {1, 2}
AccountDatas == {0, 1}

\* system::AccountInfo<Index, AccountData>: the nonce and the rest of the
\* record (consumers, providers, balances) as one opaque field
AccountInfo == [nonce : 0..MaxNonce, data : AccountDatas]

\* SCALE encoding of an AccountInfo: the fields in declaration order
encode_account_info(info) == <<info.nonce, info.data>>

\* AccountInfo::decode reads the fields from the front of the input and
\* fails when the input ends early; bytes after the record are not read
decode_account_info(bytes) ==
    IF Len(bytes) >= 2
    THEN Some([nonce |-> bytes[1], data |-> bytes[2]])
    ELSE None

\* storage_map_key("System", "Account", account, Blake2_128Concat): the
\* hasher appends the raw key, so the key is injective in the account
account_key_hash(account) == <<"System", "Account", account>>

StorageKeys == {account_key_hash(a) : a \in Accounts}

\* the byte strings a storage slot of an account can hold in the model: an
\* encoded AccountInfo, or bytes that do not decode (a truncated record)
StoredBytes == {encode_account_info(i) : i \in AccountInfo} \cup {<<>>}

get_account_info(st, who) ==
    LET infovec == st[account_key_hash(who)]
    IN IF infovec.some
       THEN decode_account_info(infovec.val)
       ELSE None

StfOk == [ok |-> TRUE, err |-> "", nonce |-> 0]
InvalidNonce(n) == [ok |-> FALSE, err |-> "InvalidNonce", nonce |-> n]

\* variant: a nonce above the expected one is let through
validate_nonce_mut_atleast(st, who, nonce) ==
    LET acc == get_account_info(st, who)
        expected_nonce == IF acc.some THEN acc.val.nonce ELSE 0
    IN IF expected_nonce <= nonce THEN StfOk ELSE InvalidNonce(nonce)

validate_nonce(st, who, nonce) ==
    LET acc == get_account_info(st, who)
        expected_nonce == IF acc.some THEN acc.val.nonce ELSE 0
    IN IF expected_nonce = nonce THEN StfOk ELSE InvalidNonce(nonce)

\* variant: the incremented record is not written back
increment_nonce_mut_nowrite(st, account) == st

\* variant: an account without a record gets one with nonce 1
increment_nonce_mut_create(st, account) ==
    LET acc == get_account_info(st, account)
    IN IF acc.some
       THEN [st EXCEPT ![account_key_hash(account)] =
                Some(encode_account_info([acc.val EXCEPT !.nonce = @ + 1]))]
       ELSE [st EXCEPT ![account_key_hash(account)] =
                Some(encode_account_info([nonce |-> 1, data |-> 0]))]

\* the state after increment_nonce(account)
increment_nonce(st, account) ==
    LET acc == get_account_info(st, account)
    IN IF acc.some
       THEN [st EXCEPT ![account_key_hash(account)] =
                Some(encode_account_info([acc.val EXCEPT !.nonce = @ + 1]))]
       ELSE st

LedgerInitFresh ==
    /\ state \in [StorageKeys ->
                    {None, Some(<<>>)} \cup
                    {Some(encode_account_info([nonce |-> 0, data |-> d])) : d \in AccountDatas}]
    /\ incCalls = [a \in Accounts |-> 0]
    /\ StoreInit
    /\ BootIdle
    /\ lastOp = NoOp

ValidateNonce ==
    \E who \in Accounts, nonce \in 0..(MaxNonce + 1) :
        /\ lastOp' = [op |-> "validate_nonce", who |-> who, nonce |-> nonce,
                      result |-> validate_nonce(state, who, nonce)]
        /\ UNCHANGED <<state, incCalls>>
        /\ UNCHANGED <<storeVars, bootVars>>

IncrementNonce ==
    \E account \in Accounts :
        /\ LET acc == get_account_info(state, account)
           IN acc.some => acc.val.nonce < MaxNonce
        /\ incCalls[account] < MaxNonce
        /\ state' = increment_nonce(state, account)
        /\ incCalls' = [incCalls EXCEPT ![account] = @ + 1]
        /\ lastOp' = [op |-> "increment_nonce", who |-> account]
        /\ UNCHANGED <<storeVars, bootVars>>

NextNonce == ValidateNonce \/ IncrementNonce

SpecNonce == LedgerInitFresh /\ [][NextNonce]_vars

\* The nonce at the width of its type.  Index is an unsigned integer of
\* fixed width; MaxIndex is its largest value.  acc_info.nonce += 1 on the
\* largest value panics in a build with overflow checks and wraps to 0 in
\* a build without them.
index_add_one(nonce, overflow_checks) ==
    IF nonce < MaxIndex THEN [panicked |-> FALSE, nonce |-> nonce + 1]
    ELSE IF overflow_checks THEN [panicked |-> TRUE, nonce |-> nonce]
    ELSE [panicked |-> FALSE, nonce |-> (nonce + 1) % (MaxIndex + 1)]

\* increment_nonce as the build runs it: the state afterwards, and whether
\* the addition panicked before the record was written
increment_nonce_of_build(st, account, overflow_checks) ==
    LET acc == get_account_info(st, account)
    IN IF ~acc.some THEN [panicked |-> FALSE, state |-> st]
       ELSE LET sum == index_add_one(acc.val.nonce, overflow_checks)
            IN IF sum.panicked THEN [panicked |-> TRUE, state |-> st]
               ELSE [panicked |-> FALSE,
                     state |-> [st EXCEPT ![account_key_hash(account)] =
                                   Some(encode_account_info([acc.val EXCEPT !.nonce = sum.nonce]))]]

\* accounts without a record and accounts whose nonce is at or next to the
\* largest value
LedgerInitHigh ==
    /\ state \in [StorageKeys ->
                    {None} \cup {Some(encode_account_info([nonce |-> n, data |-> d]))
                                    : n \in (MaxIndex - 1)..MaxIndex, d \in AccountDatas}]
    /\ incCalls = [a \in Accounts |-> 0]
    /\ StoreInit
    /\ BootIdle
    /\ lastOp = NoOp

IncrementNonceOfBuild ==
    \E account \in Accounts, overflow_checks \in BOOLEAN :
        LET r == increment_nonce_of_build(state, account, overflow_checks)
        IN /\ state' = r.state
           /\ lastOp' = [op |-> "increment_nonce", who |-> account,
                         overflow_checks |-> overflow_checks, panicked |-> r.panicked]
           /\ UNCHANGED <<incCalls, storeVars, bootVars>>

SpecIndexWidth == LedgerInitHigh /\ [][IncrementNonceOfBuild]_vars

(***************************************************************************)
(* StatePayload and its application to the held state                      *)
(***************************************************************************)
\* code of a storage slot's content, for the state hash
SlotCode(v) ==
    IF ~v.some THEN 0
    ELSE IF Len(v.val) < 2 THEN 1
    ELSE 2 + v.val[1] * Cardinality(AccountDatas) + v.val[2]

SlotBase == 2 + (MaxNonce + 2) * Cardinality(AccountDatas)

RECURSIVE HashUpTo(_, _)
HashUpTo(st, n) ==
    IF n = 0 THEN 0
    ELSE SlotCode(st[account_key_hash(n)]) + SlotBase * HashUpTo(st, n - 1)

\* the hash of the held state (H256), collision-free on the states of the model
state_hash(st) == HashUpTo(st, Cardinality(Accounts))

\* StateTypeDiff: storage key -> Option<Vec<u8>>, Some to set a slot and
\* None to remove it; a key that is not in the diff is left alone
\* the diffs of the model touch no key, one key, or write one entry to
\* every key
StateTypeDiffs ==
    LET entries == {None} \cup {Some(b) : b \in StoredBytes}
    IN {<<>>} \cup
       UNION {[{k} -> entries] : k \in StorageKeys} \cup
       {[k \in StorageKeys |-> e] : e \in entries}

\* the state with every entry of the diff written to it
apply_state_diff(st, update) ==
    [k \in StorageKeys |-> IF k \in DOMAIN update THEN update[k] ELSE st[k]]

\* StatePayload::new
StatePayload(apriori, aposteriori, update) ==
    [state_hash_apriori |-> apriori,
     state_hash_aposteriori |-> aposteriori,
     state_update |-> update]

\* variant: the diff stays applied when the aposteriori hash does not match
apply_state_update_mut_keep(st, payload) ==
    IF state_hash(st) # payload.state_hash_apriori
    THEN [result |-> "StorageHashMismatch", state |-> st]
    ELSE LET new == apply_state_diff(st, payload.state_update)
         IN IF state_hash(new) # payload.state_hash_aposteriori
            THEN [result |-> "InvalidStorageDiff", state |-> new]
            ELSE [result |-> "Ok", state |-> new]

\* variant: the apriori hash is not checked
apply_state_update_mut_nogate(st, payload) ==
    LET new == apply_state_diff(st, payload.state_update)
    IN IF state_hash(new) # payload.state_hash_aposteriori
       THEN [result |-> "InvalidStorageDiff", state |-> st]
       ELSE [result |-> "Ok", state |-> new]

\* apply(StatePayload) on the ledger: the result and the state held afterwards
apply_state_update(st, payload) ==
    IF state_hash(st) # payload.state_hash_apriori
    THEN [result |-> "StorageHashMismatch", state |-> st]
    ELSE LET new == apply_state_diff(st, payload.state_update)
         IN IF state_hash(new) # payload.state_hash_aposteriori
            THEN [result |-> "InvalidStorageDiff", state |-> st]
            ELSE [result |-> "Ok", state |-> new]

EmptyState == [k \in StorageKeys |-> None]

LedgerInit ==
    /\ state = EmptyState
    /\ incCalls = [a \in Accounts |-> 0]
    /\ StoreInit
    /\ BootIdle
    /\ lastOp = NoOp

\* a payload carries the hash of the held state or another hash as apriori,
\* and the hash of the state its diff leads to or another hash as aposteriori
ApplyStatePayload ==
    \E update \in StateTypeDiffs :
        LET held == state_hash(state)
            led == state_hash(apply_state_diff(state, update))
        IN \E apriori \in {held, held + 1}, aposteriori \in {led, led + 1} :
            LET payload == StatePayload(apriori, aposteriori, update)
                r == apply_state_update(state, payload)
            IN /\ state' = r.state
               /\ lastOp' = [op |-> "apply", payload |-> payload, result |-> r.result]
               /\ UNCHANGED incCalls
               /\ UNCHANGED <<storeVars, bootVars>>

LedgerIncrementNonce ==
    \E account \in Accounts :
        /\ LET acc == get_account_info(state, account)
           IN acc.some => acc.val.nonce < MaxNonce
        /\ state' = increment_nonce(state, account)
        /\ lastOp' = [op |-> "increment_nonce", who |-> account]
        /\ UNCHANGED incCalls
        /\ UNCHANGED <<storeVars, bootVars>>

NextLedger == ApplyStatePayload \/ ValidateNonce \/ LedgerIncrementNonce

SpecLedger == LedgerInit /\ [][NextLedger]_vars

(***************************************************************************)
(* SecretShareVault: keyvault.rs                                           *)
(***************************************************************************)
Owners == {"alice", "bob"}

\* sharks::Share: the x coordinate and the y values
Shares == {[x |-> 1, y |-> <<7>>], [x |-> 2, y |-> <<7, 8>>]}

\* Vec::from(&share): x followed by the y values
share_to_bytes(share) == <<share.x>> \o share.y

\* variant: the y values start one byte too late
share_try_from_mut_skip(bytes) ==
    IF Len(bytes) < 2
    THEN [ok |-> FALSE, share |-> [x |-> 0, y |-> <<>>]]
    ELSE [ok |-> TRUE, share |-> [x |-> bytes[1], y |-> Tail(Tail(bytes))]]

\* Share::try_from(&[u8]): a share has at least two bytes
share_try_from(bytes) ==
    IF Len(bytes) < 2
    THEN [ok |-> FALSE, share |-> [x |-> 0, y |-> <<>>]]
    ELSE [ok |-> TRUE, share |-> [x |-> bytes[1], y |-> Tail(bytes)]]

\* variant: only the first owner is authorized
is_authorized_mut_first_owner(owner, nft_id) == owner = "alice"

\* impl NftAccess for KeyvaultStorage
is_authorized(owner, nft_id) == TRUE

\* KeyvaultStorage::ensure_dir_exists
ensure_dir_exists(ds) == ds \cup {STORAGE_PATH}

\* variant: an existing sealed file is removed before the new one is sealed
keyvault_seal_mut_remove(files, ds, nft_id, share) ==
    LET filepath == nft_sealed_file_path(nft_id)
        ds1 == IF is_file(files, filepath) THEN ds ELSE ensure_dir_exists(ds)
        r == io_seal([files EXCEPT ![filepath] = NoFile], ds1, share_to_bytes(share), filepath)
    IN [ok |-> r.ok, fs |-> r.fs, dirs |-> r.dirs]

\* KeyvaultStorage::seal
keyvault_seal(files, ds, nft_id, share) ==
    LET filepath == nft_sealed_file_path(nft_id)
        ds1 == IF is_file(files, filepath) THEN ds ELSE ensure_dir_exists(ds)
        r == io_seal(files, ds1, share_to_bytes(share), filepath)
    IN [ok |-> r.ok, fs |-> r.fs, dirs |-> r.dirs]

\* KeyvaultStorage::unseal
keyvault_unseal(files, nft_id) ==
    LET filepath == nft_sealed_file_path(nft_id)
        r == io_unseal(files, filepath)
    IN IF r.ok
       THEN share_try_from(r.bytes)
       ELSE [ok |-> FALSE, share |-> [x |-> 0, y |-> <<>>]]

\* KeyvaultStorage::provision
provision(files, ds, owner, nft_id, share) ==
    IF ~is_authorized(owner, nft_id)
    THEN [ok |-> FALSE, fs |-> files, dirs |-> ds]
    ELSE keyvault_seal(files, ds, nft_id, share)

\* variant: check unseals the file and answers whether a share came out
check_mut_unseal(files, owner, nft_id) ==
    IF ~is_authorized(owner, nft_id)
    THEN FALSE
    ELSE keyvault_unseal(files, nft_id).ok

\* KeyvaultStorage::check
check(files, owner, nft_id) ==
    IF ~is_authorized(owner, nft_id)
    THEN FALSE
    ELSE is_file(files, nft_sealed_file_path(nft_id))

\* variant: a failed unseal is answered with the share the bytes give
get_mut_default(files, owner, nft_id) ==
    IF ~is_authorized(owner, nft_id)
    THEN None
    ELSE Some(keyvault_unseal(files, nft_id).share)

\* KeyvaultStorage::get
get(files, owner, nft_id) ==
    IF ~is_authorized(owner, nft_id)
    THEN None
    ELSE LET r == keyvault_unseal(files, nft_id)
         IN IF r.ok THEN Some(r.share) ELSE None

Provision ==
    \E owner \in Owners, nft_id \in NFTIds, share \in Shares :
        LET r == provision(fs, dirs, owner, nft_id, share)
        IN /\ fs' = r.fs
           /\ dirs' = r.dirs
           /\ lastOp' = [op |-> "provision", owner |-> owner, nft_id |-> nft_id,
                         share |-> share, ok |-> r.ok]
           /\ UNCHANGED <<sealLog, ledgerVars, bootVars>>

Check ==
    \E owner \in Owners, nft_id \in NFTIds :
        /\ lastOp' = [op |-> "check", owner |-> owner, nft_id |-> nft_id,
                      result |-> check(fs, owner, nft_id)]
        /\ UNCHANGED <<storeVars, ledgerVars, bootVars>>

Get ==
    \E owner \in Owners, nft_id \in NFTIds :
        /\ lastOp' = [op |-> "get", owner |-> owner, nft_id |-> nft_id,
                      result |-> get(fs, owner, nft_id)]
        /\ UNCHANGED <<storeVars, ledgerVars, bootVars>>

VaultInit ==
    /\ StoreInit
    /\ BootIdle
    /\ state = EmptyState
    /\ incCalls = [a \in Accounts |-> 0]
    /\ lastOp = NoOp

NextVault == Provision \/ Check \/ Get

SpecVault == VaultInit /\ [][NextVault]_vars

\* The vault next to a file system that does not only hold what provision
\* sealed: a sealed file can be altered on disk, so that it no longer
\* authenticates, it can hold sealed bytes that are no share, and it can
\* be removed.
VaultPaths == {nft_sealed_file_path(id) : id \in NFTIds}

\* a file that exists and whose contents do not authenticate
CorruptFile(bytes) == [kind |-> "corrupt", bytes |-> bytes]

\* sealed bytes too short for Share::try_from
ForeignBytes == <<5>>

TamperFile ==
    \E path \in VaultPaths :
        /\ fs[path].kind = "sealed"
        /\ fs' = [fs EXCEPT ![path] = CorruptFile(fs[path].bytes)]
        /\ lastOp' = [op |-> "tamper", path |-> path]
        /\ UNCHANGED <<dirs, sealLog, ledgerVars, bootVars>>

ForeignBlob ==
    \E path \in VaultPaths :
        /\ fs' = [fs EXCEPT ![path] = SealedFile(ForeignBytes)]
        /\ dirs' = dirs \cup {ParentDir(path)}
        /\ lastOp' = [op |-> "foreign_blob", path |-> path]
        /\ UNCHANGED <<sealLog, ledgerVars, bootVars>>

\* fs::remove_file
RemoveFile ==
    \E path \in VaultPaths :
        /\ is_file(fs, path)
        /\ fs' = [fs EXCEPT ![path] = NoFile]
        /\ lastOp' = [op |-> "remove_file", path |-> path]
        /\ UNCHANGED <<dirs, sealLog, ledgerVars, bootVars>>

NextVaultFaults == Provision \/ Check \/ Get \/ TamperFile \/ ForeignBlob \/ RemoveFile

SpecVaultFaults == VaultInit /\ [][NextVaultFaults]_vars

\* The sealed-file path, character by character.  A path is the sequence
\* of its characters, the directory standing as one element.
\* largest nft id whose path is derived
MaxId == 20

\* the directories a KeyvaultStorage is set to: STORAGE_PATH and the one of
\* test_sealed_file_name_contains_nftid
VaultDirs == {STORAGE_PATH, "test_sealed_file_name"}

Digit(d) == CASE d = 0 -> "0" [] d = 1 -> "1" [] d = 2 -> "2" [] d = 3 -> "3" [] d = 4 -> "4"
              [] d = 5 -> "5" [] d = 6 -> "6" [] d = 7 -> "7" [] d = 8 -> "8" [] d = 9 -> "9"

\* format!("{}", nft_id): the decimal digits, no leading zero
RECURSIVE decimal(_)
decimal(n) == IF n < 10 THEN <<Digit(n)>> ELSE decimal(n \div 10) \o <<Digit(n % 10)>>

\* PathBuf::set_extension: what follows the last dot of the file name, the
\* dot included, is replaced; a name without a dot is extended
set_extension(name, extension) ==
    LET dots == {i \in 2..Len(name) : name[i] = "."}
        stem == IF dots = {} THEN name
                ELSE SubSeq(name, 1, (CHOOSE i \in dots : \A j \in dots : j <= i) - 1)
    IN stem \o <<".">> \o extension

\* variant: only the last digit of the id goes into the name
nft_sealed_file_name_mut_lastdigit(nft_id) ==
    set_extension(decimal(nft_id % 10) \o <<"_", "N", "f", "t">>, <<"b", "i", "n">>)

\* KeyvaultStorage::nft_sealed_file_path, the file name
nft_sealed_file_name(nft_id) ==
    set_extension(decimal(nft_id) \o <<"_", "N", "f", "t">>, <<"b", "i", "n">>)

\* KeyvaultStorage::nft_sealed_file_path, the directory and the file name
nft_sealed_file_path_chars(path, nft_id) == <<path, "/">> \o nft_sealed_file_name(nft_id)

\* Path::file_name
file_name(p) == SubSeq(p, 3, Len(p))

\* str::contains
contains(str, pat) ==
    \E i \in 0..(Len(str) - Len(pat)) : SubSeq(str, i + 1, i + Len(pat)) = pat

\* the path of two ids is derived, the first one twice
SealedFilePath ==
    \E path \in VaultDirs, a \in 0..MaxId, b \in 0..MaxId :
        /\ lastOp' = [op |-> "nft_sealed_file_path", path |-> path, a |-> a, b |-> b,
                      file_a |-> nft_sealed_file_path_chars(path, a),
                      again_a |-> nft_sealed_file_path_chars(path, a),
                      file_b |-> nft_sealed_file_path_chars(path, b)]
        /\ UNCHANGED <<storeVars, ledgerVars, bootVars>>

SpecPaths == VaultInit /\ [][SealedFilePath]_vars

(***************************************************************************)
(* The RPC gateway: rpc/ternoa_rpc_gateway.rs, impl RpcGateway for         *)
(* TernoaRpcGateway                                                        *)
(***************************************************************************)
\* TernoaRpcGateway::keyvault_get
keyvault_get(owner, nft_id) == None

\* TernoaRpcGateway::keyvault_check
keyvault_check(owner, nft_id) == TRUE

\* TernoaRpcGateway::keyvault_provision
keyvault_provision(owner, nft_id, share) == "Ok"

GatewayGet ==
    \E owner \in Owners, nft_id \in NFTIds :
        /\ lastOp' = [op |-> "keyvault_get", owner |-> owner, nft_id |-> nft_id,
                      result |-> keyvault_get(owner, nft_id)]
        /\ UNCHANGED <<storeVars, ledgerVars, bootVars>>

GatewayCheck ==
    \E owner \in Owners, nft_id \in NFTIds :
        /\ lastOp' = [op |-> "keyvault_check", owner |-> owner, nft_id |-> nft_id,
                      result |-> keyvault_check(owner, nft_id)]
        /\ UNCHANGED <<storeVars, ledgerVars, bootVars>>

GatewayProvision ==
    \E owner \in Owners, nft_id \in NFTIds, share \in Shares :
        /\ lastOp' = [op |-> "keyvault_provision", owner |-> owner, nft_id |-> nft_id,
                      share |-> share, result |-> keyvault_provision(owner, nft_id, share)]
        /\ UNCHANGED <<storeVars, ledgerVars, bootVars>>

\* the gateway next to the keyvault of the same enclave
NextGateway == GatewayGet \/ GatewayCheck \/ GatewayProvision \/ Provision \/ Check \/ Get

SpecGateway == VaultInit /\ [][NextGateway]_vars

(***************************************************************************)
(* RegistrySnapshotStore: nft_registry_storage_helper.rs                   *)
(***************************************************************************)
NFTDatas == {7, 8}
BlockNumbers == {3, 13}

\* the orders in which the ids of a set can be listed
Orders(ids) ==
    {o \in [1..Cardinality(ids) -> ids] : \A i, j \in 1..Cardinality(ids) : o[i] = o[j] => i = j}

\* NFTRegistry: the map id -> data, the id index and the block number
NFTRegistries ==
    UNION {[block_number : BlockNumbers, registry : [ids -> NFTDatas], nft_ids : Orders(ids)]
              : ids \in SUBSET NFTIds}

\* create_from_registry: the map is flattened in the order its iterator
\* yields the entries, which the HashMap does not fix
create_from_registry(hashmap_registry, order) ==
    [registry |-> [i \in 1..Len(order) |-> <<order[i], hashmap_registry.registry[order[i]]>>],
     block_number |-> hashmap_registry.block_number]

RECURSIVE recover_map(_)
recover_map(pairs) ==
    IF pairs = <<>> THEN <<>>
    ELSE LET front == recover_map(SubSeq(pairs, 1, Len(pairs) - 1))
             last == pairs[Len(pairs)]
         IN [k \in DOMAIN front \cup {last[1]} |-> IF k = last[1] THEN last[2] ELSE front[k]]

\* variant: the last pair of the flattened sequence is not inserted
recover_registry_mut_short(helper) ==
    LET pairs == SubSeq(helper.registry, 1, Len(helper.registry) - 1)
    IN [block_number |-> helper.block_number,
        registry |-> recover_map(pairs),
        nft_ids |-> [i \in 1..Len(pairs) |-> pairs[i][1]]]

\* the ids of a set in increasing order
RECURSIVE Ascending(_)
Ascending(ids) ==
    IF ids = {} THEN <<>>
    ELSE LET least == CHOOSE i \in ids : \A j \in ids : i <= j
         IN <<least>> \o Ascending(ids \ {least})

\* variant: the id index is taken from the keys of the recovered map
recover_registry_mut_keys(helper) ==
    [block_number |-> helper.block_number,
     registry |-> recover_map(helper.registry),
     nft_ids |-> Ascending(DOMAIN recover_map(helper.registry))]

\* recover_registry: every pair is inserted into the map and its id pushed
\* to the id index
recover_registry(helper) ==
    [block_number |-> helper.block_number,
     registry |-> recover_map(helper.registry),
     nft_ids |-> [i \in 1..Len(helper.registry) |-> helper.registry[i][1]]]

RECURSIVE encode_pairs(_)
encode_pairs(pairs) ==
    IF pairs = <<>> THEN <<>>
    ELSE <<pairs[1][1], pairs[1][2]>> \o encode_pairs(Tail(pairs))

\* Encode for NFTRegistryStorageHelper: the length of the pair vector, the
\* pairs, then the block number
helper_encode(helper) ==
    <<Len(helper.registry)>> \o encode_pairs(helper.registry) \o <<helper.block_number>>

\* Decode for NFTRegistryStorageHelper: fails when the input ends before
\* the announced pairs and the block number are read
helper_decode(bytes) ==
    IF Len(bytes) >= 1 /\ Len(bytes) >= 2 * bytes[1] + 2
    THEN [ok |-> TRUE,
          helper |-> [registry |-> [i \in 1..bytes[1] |-> <<bytes[2 * i], bytes[2 * i + 1]>>],
                      block_number |-> bytes[2 * bytes[1] + 2]]]
    ELSE [ok |-> FALSE, helper |-> [registry |-> <<>>, block_number |-> 0]]

\* variant: the new state is sealed first and the backup copied afterwards
registry_seal_mut_late_backup(files, ds, path, hashmap_registry, order) ==
    LET helper == create_from_registry(hashmap_registry, order)
        r == io_seal(files, ds, helper_encode(helper), path)
        copied == fs_copy(r.fs, path, BackupPath(path))
    IN [result |-> IF r.ok THEN "Ok" ELSE "SgxIoSealError",
        backup_ok |-> copied.ok, fs |-> copied.fs, dirs |-> r.dirs,
        payload |-> helper_encode(helper)]

\* NFTRegistryStorageHelper::seal
registry_seal(files, ds, path, hashmap_registry, order) ==
    LET copied == fs_copy(files, path, BackupPath(path))
        helper == create_from_registry(hashmap_registry, order)
        r == io_seal(copied.fs, ds, helper_encode(helper), path)
    IN [result |-> IF r.ok THEN "Ok" ELSE "SgxIoSealError",
        backup_ok |-> copied.ok, fs |-> r.fs, dirs |-> r.dirs,
        payload |-> helper_encode(helper)]

NoRegistry == [block_number |-> 0, registry |-> <<>>, nft_ids |-> <<>>]

\* variant: a blob that ends early is decoded as far as it goes
registry_unseal_mut_partial(files, path) ==
    LET encoded == io_unseal(files, path)
    IN IF ~encoded.ok
       THEN [result |-> "SgxIoUnsealError", registry |-> NoRegistry]
       ELSE LET registry_codec == helper_decode(encoded.bytes)
            IN [result |-> "Ok", registry |-> recover_registry(registry_codec.helper)]

\* NFTRegistryStorageHelper::unseal
registry_unseal(files, path) ==
    LET encoded == io_unseal(files, path)
    IN IF ~encoded.ok
       THEN [result |-> "SgxIoUnsealError", registry |-> NoRegistry]
       ELSE LET registry_codec == helper_decode(encoded.bytes)
            IN IF ~registry_codec.ok
               THEN [result |-> "DecodeError", registry |-> NoRegistry]
               ELSE [result |-> "Ok", registry |-> recover_registry(registry_codec.helper)]

\* largest number of pairs in a flattened registry handed to
\* recover_registry
MaxPairs == 3

\* the flattened registries: every sequence of up to MaxPairs pairs, an id
\* possibly in more than one pair, with a block number
StorageHelpers ==
    UNION {[registry : [1..n -> NFTIds \X NFTDatas], block_number : BlockNumbers] : n \in 0..MaxPairs}

RecoverRegistry ==
    \E helper \in StorageHelpers :
        /\ lastOp' = [op |-> "recover_registry", helper |-> helper,
                      registry |-> recover_registry(helper)]
        /\ UNCHANGED <<storeVars, ledgerVars, bootVars>>

SpecRecover == VaultInit /\ [][RecoverRegistry]_vars

RegistrySeal ==
    \E hashmap_registry \in NFTRegistries :
        \E order \in Orders(DOMAIN hashmap_registry.registry) :
            LET r == registry_seal(fs, dirs, RegistryPath, hashmap_registry, order)
            IN /\ fs' = r.fs
               /\ dirs' = r.dirs
               /\ sealLog' = IF r.result # "Ok" THEN sealLog
                             ELSE IF Len(sealLog) < 2 THEN Append(sealLog, r.payload)
                             ELSE <<sealLog[2], r.payload>>
               /\ lastOp' = [op |-> "registry_seal", path |-> RegistryPath,
                             registry |-> hashmap_registry, order |-> order,
                             result |-> r.result]
               /\ UNCHANGED <<ledgerVars, bootVars>>

RegistryUnseal ==
    /\ lastOp' = [op |-> "registry_unseal", path |-> RegistryPath,
                  unsealed |-> registry_unseal(fs, RegistryPath)]
    /\ UNCHANGED <<storeVars, ledgerVars, bootVars>>

NextRegistry == RegistrySeal \/ RegistryUnseal

SpecRegistry == VaultInit /\ [][NextRegistry]_vars

\* The registry store next to a file system that can fail: the backup copy
\* and the sealed write each succeed or fail, and the blob on disk can be
\* altered, cut short or removed between a seal and an unseal.

\* what a sealed write can come to: it succeeds, it fails and leaves the
\* blob at the path as it was, or it fails after the file was created and
\* leaves a file that does not authenticate
WriteOutcomes == {"ok", "failed", "torn"}

\* io::seal with the outcome of its write
io_seal_outcome(files, ds, bytes, path, write) ==
    IF write = "ok" THEN io_seal(files, ds, bytes, path)
    ELSE LET backed == io_seal_backup(files, path)
         IN [ok |-> FALSE,
             fs |-> IF write = "torn" THEN [backed EXCEPT ![path] = CorruptFile(<<>>)] ELSE backed,
             dirs |-> ds \cup {ParentDir(path)}]

\* std::fs::copy with its outcome: it fails when the source does not exist
\* and can fail for a source that does
fs_copy_outcome(files, from, to, copy_ok) ==
    IF copy_ok THEN fs_copy(files, from, to) ELSE [ok |-> FALSE, fs |-> files]

\* variant: a failed backup copy is returned as the seal error
registry_seal_outcome_mut_strict(files, ds, path, hashmap_registry, order, copy_ok, write) ==
    LET copied == fs_copy_outcome(files, path, BackupPath(path), copy_ok)
        helper == create_from_registry(hashmap_registry, order)
        r == io_seal_outcome(copied.fs, ds, helper_encode(helper), path, write)
    IN IF ~copied.ok
       THEN [result |-> "SgxIoSealError", backup_ok |-> FALSE, fs |-> files, dirs |-> ds,
             payload |-> helper_encode(helper)]
       ELSE [result |-> IF r.ok THEN "Ok" ELSE "SgxIoSealError",
             backup_ok |-> copied.ok, fs |-> r.fs, dirs |-> r.dirs,
             payload |-> helper_encode(helper)]

\* NFTRegistryStorageHelper::seal with the outcomes of fs::copy and of
\* SgxIo::seal
registry_seal_outcome(files, ds, path, hashmap_registry, order, copy_ok, write) ==
    LET copied == fs_copy_outcome(files, path, BackupPath(path), copy_ok)
        helper == create_from_registry(hashmap_registry, order)
        r == io_seal_outcome(copied.fs, ds, helper_encode(helper), path, write)
    IN [result |-> IF r.ok THEN "Ok" ELSE "SgxIoSealError",
        backup_ok |-> copied.ok, fs |-> r.fs, dirs |-> r.dirs,
        payload |-> helper_encode(helper)]

\* the registries sealed next to the failing file system: every set of ids
\* in every order of the id index, with one value and one block number
RegistriesOfOneValue ==
    {r \in NFTRegistries : /\ r.block_number = 13
                           /\ \A id \in DOMAIN r.registry : r.registry[id] = 7}

RegistrySealOutcome ==
    \E hashmap_registry \in RegistriesOfOneValue, copy_ok \in BOOLEAN, write \in WriteOutcomes :
        \E order \in Orders(DOMAIN hashmap_registry.registry) :
            LET r == registry_seal_outcome(fs, dirs, RegistryPath, hashmap_registry, order,
                                           copy_ok, write)
            IN /\ fs' = r.fs
               /\ dirs' = r.dirs
               /\ sealLog' = IF r.result # "Ok" THEN sealLog
                             ELSE IF Len(sealLog) < 2 THEN Append(sealLog, r.payload)
                             ELSE <<sealLog[2], r.payload>>
               /\ lastOp' = [op |-> "registry_seal", path |-> RegistryPath,
                             registry |-> hashmap_registry, order |-> order,
                             payload |-> r.payload, backup_ok |-> r.backup_ok,
                             write_ok |-> (write = "ok"), result |-> r.result]
               /\ UNCHANGED <<ledgerVars, bootVars>>

\* a sequence of seal calls to one path, nothing else touching the files
SpecSealFaults == VaultInit /\ [][RegistrySealOutcome]_vars

\* the blob is altered on disk and no longer authenticates
RegistryTamper ==
    /\ fs[RegistryPath].kind = "sealed"
    /\ fs' = [fs EXCEPT ![RegistryPath] = CorruptFile(fs[RegistryPath].bytes)]
    /\ lastOp' = [op |-> "tamper", path |-> RegistryPath]
    /\ UNCHANGED <<dirs, sealLog, ledgerVars, bootVars>>

\* a sealed blob that holds the encoding of a registry without its last byte
RegistryCutShort ==
    /\ fs[RegistryPath].kind = "sealed"
    /\ helper_decode(fs[RegistryPath].bytes).ok
    /\ fs' = [fs EXCEPT ![RegistryPath] =
                 SealedFile(SubSeq(fs[RegistryPath].bytes, 1, Len(fs[RegistryPath].bytes) - 1))]
    /\ lastOp' = [op |-> "cut_short", path |-> RegistryPath]
    /\ UNCHANGED <<dirs, sealLog, ledgerVars, bootVars>>

\* fs::remove_file(path)
RegistryRemove ==
    /\ is_file(fs, RegistryPath)
    /\ fs' = [fs EXCEPT ![RegistryPath] = NoFile]
    /\ lastOp' = [op |-> "remove_file", path |-> RegistryPath]
    /\ UNCHANGED <<dirs, sealLog, ledgerVars, bootVars>>

NextRegistryFaults ==
    RegistrySealOutcome \/ RegistryUnseal \/ RegistryTamper \/ RegistryCutShort \/ RegistryRemove

SpecRegistryFaults == VaultInit /\ [][NextRegistryFaults]_vars

(***************************************************************************)
(* AttestationBootstrap: service/src/main.rs, start_worker                 *)
(***************************************************************************)
\* itp_settings::worker, imported at main.rs:44
REGISTERING_FEE_FACTOR_FOR_INIT_FUNDS == 10
EXISTENTIAL_DEPOSIT_FACTOR_FOR_INIT_FUNDS == 1000

\* u128::saturating_mul and u128::saturating_sub
saturating_mul(a, b) == IF a * b > MaxBalance THEN MaxBalance ELSE a * b
saturating_sub(a, b) == IF a > b THEN a - b ELSE 0

\* Error::Custom of account_funding
NotEnoughFunds == "Custom: Enclave does not have enough funds on the parentchain to register."

\* what api.get_fee_details reports: the inclusion fee, no inclusion fee, or
\* no fee details at all
FeeDetails ==
    {[kind |-> "fee", fee |-> f] : f \in (0..MaxFee) \cup {MaxBalance}}
       \cup {[kind |-> "no_inclusion_fee", fee |-> 0], [kind |-> "no_details", fee |-> 0]}

\* the balances of the model lie around the funding thresholds
FreeBalances ==
    {b \in {f * REGISTERING_FEE_FACTOR_FOR_INIT_FUNDS + d : f \in 0..MaxFee, d \in {-1, 0, 1}} : b >= 0}
       \cup {EXISTENTIAL_DEPOSIT_FACTOR_FOR_INIT_FUNDS - 1,
             EXISTENTIAL_DEPOSIT_FACTOR_FOR_INIT_FUNDS, MaxBalance}

Chains ==
    [free_balance : FreeBalances,
     alice_free : {0, EXISTENTIAL_DEPOSIT_FACTOR_FOR_INIT_FUNDS, MaxBalance},
     existential_deposit : {0, 1},
     fee_details : FeeDetails]

\* which requests to the node succeed during one call of account_funding
ApiOutcomes ==
    [fee_details : BOOLEAN, free_balance : BOOLEAN, existential_deposit : BOOLEAN,
     alice : BOOLEAN, transfer : BOOLEAN]

Funding(result, ch, sg, sub) ==
    [result |-> result, chain |-> ch, signer |-> sg, submitted |-> sub]

\* bootstrap_funds_from_alice
bootstrap_funds_from_alice(ch, sg, sub, funding_amount, api) ==
    IF ~api.alice THEN Funding("ApiClient", ch, sg, sub)
    ELSE IF funding_amount > ch.alice_free THEN Funding("ApplicationSetup", ch, sg, sub)
    ELSE IF ~api.transfer THEN Funding("ApiClient", ch, "Alice", sub)
    ELSE Funding("Ok",
                 [ch EXCEPT !.free_balance = @ + funding_amount,
                            !.alice_free = @ - funding_amount],
                 sg,
                 Append(sub, "balance_transfer"))

\* variant: the funds above the floor are taken for the missing funds
ensure_account_has_funds_mut_swapped(ch, sg, sub, api) ==
    IF ~api.free_balance \/ ~api.existential_deposit THEN Funding("ApiClient", ch, sg, sub)
    ELSE LET min_required_funds ==
                 saturating_mul(ch.existential_deposit, EXISTENTIAL_DEPOSIT_FACTOR_FOR_INIT_FUNDS)
             missing_funds == saturating_sub(ch.free_balance, min_required_funds)
         IN IF missing_funds > 0
            THEN bootstrap_funds_from_alice(ch, sg, sub, missing_funds, api)
            ELSE Funding("Ok", ch, sg, sub)

\* ensure_account_has_funds
ensure_account_has_funds(ch, sg, sub, api) ==
    IF ~api.free_balance \/ ~api.existential_deposit THEN Funding("ApiClient", ch, sg, sub)
    ELSE LET min_required_funds ==
                 saturating_mul(ch.existential_deposit, EXISTENTIAL_DEPOSIT_FACTOR_FOR_INIT_FUNDS)
             missing_funds == saturating_sub(min_required_funds, ch.free_balance)
         IN IF missing_funds > 0
            THEN bootstrap_funds_from_alice(ch, sg, sub, missing_funds, api)
            ELSE Funding("Ok", ch, sg, sub)

\* enclave_registration_fees
enclave_registration_fees(ch, api) ==
    IF ~api.fee_details THEN [result |-> "ApiClient", fee |-> 0]
    ELSE IF ch.fee_details.kind = "no_details"
    THEN [result |-> "Custom: Fee Details for the registration of the enclave is None !", fee |-> 0]
    ELSE IF ch.fee_details.kind = "no_inclusion_fee"
    THEN [result |-> "Custom: Inclusion fee for the registration of the enclave is None!", fee |-> 0]
    ELSE [result |-> "Ok", fee |-> ch.fee_details.fee]

\* variant: the operands of the missing-funds subtraction are swapped
account_funding_mut_swapped(ch, sg, sub, dev, api) ==
    IF dev THEN ensure_account_has_funds(ch, sg, sub, api)
    ELSE LET registration_fees == enclave_registration_fees(ch, api)
         IN IF registration_fees.result # "Ok"
            THEN Funding(registration_fees.result, ch, sg, sub)
            ELSE IF ~api.free_balance THEN Funding("ApiClient", ch, sg, sub)
            ELSE LET min_required_funds ==
                         saturating_mul(registration_fees.fee, REGISTERING_FEE_FACTOR_FOR_INIT_FUNDS)
                     missing_funds == saturating_sub(ch.free_balance, min_required_funds)
                 IN IF missing_funds > 0
                    THEN Funding(NotEnoughFunds, ch, sg, sub)
                    ELSE Funding("Ok", ch, sg, sub)

\* account_funding
account_funding(ch, sg, sub, dev, api) ==
    IF dev THEN ensure_account_has_funds(ch, sg, sub, api)
    ELSE LET registration_fees == enclave_registration_fees(ch, api)
         IN IF registration_fees.result # "Ok"
            THEN Funding(registration_fees.result, ch, sg, sub)
            ELSE IF ~api.free_balance THEN Funding("ApiClient", ch, sg, sub)
            ELSE LET min_required_funds ==
                         saturating_mul(registration_fees.fee, REGISTERING_FEE_FACTOR_FOR_INIT_FUNDS)
                     missing_funds == saturating_sub(min_required_funds, ch.free_balance)
                 IN IF missing_funds > 0
                    THEN Funding(NotEnoughFunds, ch, sg, sub)
                    ELSE Funding("Ok", ch, sg, sub)

BootInit ==
    /\ pc = "init"
    /\ cfg \in [dev : BOOLEAN, skip_ra : BOOLEAN]
    /\ chain \in Chains
    /\ uxt = "none"
    /\ signer = "Alice"
    /\ submitted = <<>>
    /\ bootError = "none"
    /\ SyncIdle
    /\ OthersIdle
    /\ StoreInit
    /\ state = EmptyState
    /\ incCalls = [a \in Accounts |-> 0]
    /\ lastOp = NoOp

\* start_worker: node_api.get_nonce_of(..).unwrap() and enclave.set_nonce
FetchNonce ==
    /\ pc = "init"
    /\ \E ok \in BOOLEAN :
          /\ pc' = IF ok THEN "nonce_fetched" ELSE "panicked"
          /\ lastOp' = [op |-> "fetch_nonce", ok |-> ok]
    /\ UNCHANGED <<cfg, chain, uxt, signer, submitted, bootError, storeVars, ledgerVars>>
    /\ UNCHANGED <<syncVars, otherVars>>

\* variant: a failed remote attestation is replaced by the mock extrinsic
registration_xt_mut_fallback(skip_ra, ok, none) ==
    IF skip_ra \/ ~ok
    THEN [pc |-> "credential_obtained", uxt |-> "mock_register_xt"]
    ELSE [pc |-> "credential_obtained", uxt |-> "perform_ra"]

\* start_worker, lines 259-269: the extrinsic of mock_register_xt when
\* skip_ra is set, of perform_ra otherwise; either call is unwrapped
registration_xt(skip_ra, ok, none) ==
    IF ~ok THEN [pc |-> "panicked", uxt |-> none]
    ELSE IF skip_ra THEN [pc |-> "credential_obtained", uxt |-> "mock_register_xt"]
    ELSE [pc |-> "credential_obtained", uxt |-> "perform_ra"]

\* start_worker: mock_register_xt when skip_ra is set, perform_ra otherwise
ObtainCredential ==
    /\ pc = "nonce_fetched"
    /\ \E ok \in BOOLEAN :
          /\ pc' = registration_xt(cfg.skip_ra, ok, uxt).pc
          /\ uxt' = registration_xt(cfg.skip_ra, ok, uxt).uxt
          /\ lastOp' = [op |-> "obtain_credential", ok |-> ok]
    /\ UNCHANGED <<cfg, chain, signer, submitted, bootError, storeVars, ledgerVars>>
    /\ UNCHANGED <<syncVars, otherVars>>

\* variant: a failed funding step is tried again from the start
funding_outcome_mut_retry(result) == IF result = "Ok" THEN "funded" ELSE "init"

\* variant: a failed funding step is logged and the start-up goes on
funding_outcome_mut_goes_on(result) == "funded"

\* start_worker, lines 275-279: the stage after account_funding returned
funding_outcome(result) == IF result = "Ok" THEN "funded" ELSE "aborted"

\* start_worker: account_funding, and the return without registering when
\* it fails
AccountFunding ==
    /\ pc = "credential_obtained"
    /\ \E api \in ApiOutcomes :
          LET r == account_funding(chain, signer, submitted, cfg.dev, api)
          IN /\ chain' = r.chain
             /\ signer' = r.signer
             /\ submitted' = r.submitted
             /\ pc' = funding_outcome(r.result)
             /\ bootError' = IF r.result = "Ok" THEN bootError ELSE r.result
             /\ lastOp' = [op |-> "account_funding", api |-> api, result |-> r.result]
    /\ UNCHANGED <<cfg, uxt, storeVars, ledgerVars>>
    /\ UNCHANGED <<syncVars, otherVars>>

\* start_worker: send_extrinsic(xthex, XtStatus::Finalized).unwrap()
\* The call returns once the block holding the extrinsic is finalized, with
\* the hash of that block.
RegisterEnclave ==
    /\ pc = "funded"
    /\ \/ /\ pc' = "panicked"
          /\ lastOp' = [op |-> "register_enclave", ok |-> FALSE]
          /\ UNCHANGED <<submitted, finalized, regHeader>>
       \/ \E b \in (finalized + 1)..MaxBlock :
             /\ pc' = "registered"
             /\ submitted' = Append(submitted, "register_enclave")
             /\ finalized' = b
             /\ regHeader' = Header(b)
             /\ lastOp' = [op |-> "register_enclave", ok |-> TRUE]
    /\ UNCHANGED <<cfg, chain, uxt, signer, bootError, storeVars, ledgerVars>>
    /\ UNCHANGED <<otherRegs, lightClient, lastSynced, role, syncLoop, headQueue,
                   connected, eventSub, otherVars>>

NextBoot == FetchNonce \/ ObtainCredential \/ AccountFunding \/ RegisterEnclave

SpecBoot == BootInit /\ [][NextBoot]_vars

\* bootstrap_funds_from_alice as a function of the API it is handed: the
\* signer of that API is whatever its caller installed, no signer, the
\* faucet identity (as main does) or another key
Signers == {"none", "Alice", "Tee"}

\* the amounts the faucet is asked for
FundingAmounts == {1, EXISTENTIAL_DEPOSIT_FACTOR_FOR_INIT_FUNDS}

FaucetInit ==
    /\ pc = "credential_obtained"
    /\ cfg = [dev |-> TRUE, skip_ra |-> FALSE]
    /\ chain \in Chains
    /\ uxt = "none"
    /\ signer \in Signers
    /\ submitted = <<>>
    /\ bootError = "none"
    /\ SyncIdle
    /\ OthersIdle
    /\ StoreInit
    /\ state = EmptyState
    /\ incCalls = [a \in Accounts |-> 0]
    /\ lastOp = NoOp

\* one call of bootstrap_funds_from_alice
BootstrapFundsFromAlice ==
    /\ pc = "credential_obtained"
    /\ \E funding_amount \in FundingAmounts, api \in ApiOutcomes :
          LET r == bootstrap_funds_from_alice(chain, signer, submitted, funding_amount, api)
          IN /\ chain' = r.chain
             /\ signer' = r.signer
             /\ submitted' = r.submitted
             /\ pc' = funding_outcome(r.result)
             /\ bootError' = IF r.result = "Ok" THEN bootError ELSE r.result
             /\ lastOp' = [op |-> "bootstrap_funds_from_alice", api |-> api,
                           funding_amount |-> funding_amount,
                           signer_orig |-> signer, result |-> r.result]
    /\ UNCHANGED <<cfg, uxt, storeVars, ledgerVars>>
    /\ UNCHANGED <<syncVars, otherVars>>

SpecFaucet == FaucetInit /\ [][BootstrapFundsFromAlice]_vars

(***************************************************************************)
(* ChainSync: service/src/main.rs, start_worker after the registration and *)
(* the parent_chain_sync_loop thread                                       *)
(***************************************************************************)
\* the headers numbered from + 1 .. to, in increasing order
HeaderRange(from, to) ==
    IF to > from THEN [i \in 1..(to - from) |-> from + i] ELSE <<>>

\* variant: the new head is returned without its headers being imported
sync_parentchain_mut_noimport(lc, last_synced_header, head) ==
    [header |-> IF head > last_synced_header.number
                THEN Header(head) ELSE last_synced_header,
     lightClient |-> lc]

\* variant: the header after the new head is returned
sync_parentchain_mut_ahead(lc, last_synced_header, head) ==
    [header |-> Header(IF head > last_synced_header.number
                       THEN head + 1 ELSE last_synced_header.number + 1),
     lightClient |-> lc \o HeaderRange(last_synced_header.number, head)]

\* ParentchainBlockSyncer::sync_parentchain: imports the headers after
\* last_synced_header up to the finalized head the node reports, in number
\* order, and returns the new head
sync_parentchain(lc, last_synced_header, head) ==
    [header |-> IF head > last_synced_header.number
                THEN Header(head) ELSE last_synced_header,
     lightClient |-> lc \o HeaderRange(last_synced_header.number, head)]

\* init_light_client: the light client trusts the genesis header
init_light_client(lc) ==
    [header |-> Header(0), lightClient |-> <<0>>]

RECURSIVE SumUpTo(_, _)
SumUpTo(regs, b) ==
    IF b <= 0 THEN 0
    ELSE (IF b \in DOMAIN regs THEN regs[b] ELSE 0) + SumUpTo(regs, b - 1)

\* api.enclave_count(at block): the enclaves registered up to that block,
\* the worker's own registration included once its block is reached
enclave_count(regs, own, at) ==
    SumUpTo(regs, at) + (IF own.number >= 0 /\ own.number <= at THEN 1 ELSE 0)

\* variant: the enclave count is read at the registration block itself
primary_validateer_mut_own_block(regs, own, register_enclave_xt_header) ==
    enclave_count(regs, own, register_enclave_xt_header.number) = 0

\* primary_validateer
primary_validateer(regs, own, register_enclave_xt_header) ==
    LET enclave_count_of_previous_block ==
            enclave_count(regs, own, register_enclave_xt_header.parent_hash)
    IN enclave_count_of_previous_block = 0

\* import_parentchain_blocks_until_self_registry: the loop does not return
\* while sync_parentchain stays below the registration block
RECURSIVE import_parentchain_blocks_until_self_registry(_, _, _, _)
import_parentchain_blocks_until_self_registry(lc, last_synced_header, register_enclave_xt_header, head) ==
    IF last_synced_header.number < register_enclave_xt_header.number
    THEN LET r == sync_parentchain(lc, last_synced_header, head)
         IN IF r.header.number <= last_synced_header.number
            THEN [returns |-> FALSE, header |-> r.header, lightClient |-> r.lightClient]
            ELSE import_parentchain_blocks_until_self_registry(
                     r.lightClient, r.header, register_enclave_xt_header, head)
    ELSE [returns |-> TRUE, header |-> last_synced_header, lightClient |-> lc]

\* variant: a second sync starts from the header of init_light_client, not
\* from the header the first sync returned
first_catch_up_mut_from_init(lc, head) ==
    LET i == init_light_client(lc)
        r == sync_parentchain(i.lightClient, i.header, head)
    IN sync_parentchain(r.lightClient, i.header, head)

\* start_worker, lines 285-291: the header the start-up holds after
\* init_light_client and the first sync_parentchain
first_catch_up(lc, head) ==
    LET i == init_light_client(lc)
    IN sync_parentchain(i.lightClient, i.header, head)

\* variant: the result of sync_parentchain is dropped
on_new_header_mut_drop(lc, last_synced_header, header_str, head) ==
    IF header_str.kind # "header"
    THEN [result |-> "Serialization", header |-> last_synced_header, lightClient |-> lc]
    ELSE LET r == sync_parentchain(lc, last_synced_header, head)
         IN [result |-> "Ok", header |-> last_synced_header, lightClient |-> r.lightClient]

\* variant: a message that cannot be decoded is skipped
on_new_header_mut_skip(lc, last_synced_header, header_str, head) ==
    IF header_str.kind # "header"
    THEN [result |-> "Ok", header |-> last_synced_header, lightClient |-> lc]
    ELSE LET r == sync_parentchain(lc, last_synced_header, head)
         IN [result |-> "Ok", header |-> r.header, lightClient |-> r.lightClient]

\* the body of the loop of subscribe_to_parentchain_new_headers for one
\* received message
on_new_header(lc, last_synced_header, header_str, head) ==
    IF header_str.kind # "header"
    THEN [result |-> "Serialization", header |-> last_synced_header, lightClient |-> lc]
    ELSE LET r == sync_parentchain(lc, last_synced_header, head)
         IN [result |-> "Ok", header |-> r.header, lightClient |-> r.lightClient]

\* start_worker: init_light_client(..).unwrap() and the first
\* sync_parentchain
InitLightClient ==
    /\ pc = "registered"
    /\ \/ /\ pc' = "panicked"
          /\ lastOp' = [op |-> "init_light_client", ok |-> FALSE]
          /\ UNCHANGED <<lightClient, lastSynced>>
       \/ LET r == first_catch_up(lightClient, finalized)
          IN /\ pc' = "synced"
             /\ lightClient' = r.lightClient
             /\ lastSynced' = r.header
             /\ lastOp' = [op |-> "init_light_client", ok |-> TRUE]
    /\ UNCHANGED <<cfg, chain, uxt, signer, submitted, bootError, storeVars, ledgerVars>>
    /\ UNCHANGED <<finalized, otherRegs, regHeader, role, syncLoop, headQueue,
                   connected, eventSub, otherVars>>

\* start_worker: get_header(register_enclave_xt_hash).unwrap().unwrap() and
\* primary_validateer(..).unwrap()
DecidePrimary ==
    /\ pc = "synced"
    /\ \/ /\ pc' = "panicked"
          /\ role' = role
          /\ lastOp' = [op |-> "primary_validateer", ok |-> FALSE]
       \/ /\ pc' = "decided"
          /\ role' = IF primary_validateer(otherRegs, regHeader, regHeader)
                     THEN "primary" ELSE "secondary"
          /\ lastOp' = [op |-> "primary_validateer", ok |-> TRUE]
    /\ UNCHANGED <<cfg, chain, uxt, signer, submitted, bootError, storeVars, ledgerVars>>
    /\ UNCHANGED <<finalized, otherRegs, regHeader, lightClient, lastSynced, syncLoop,
                   headQueue, connected, eventSub, otherVars>>

\* start_worker: import_parentchain_blocks_until_self_registry of a primary
ImportUntilSelfRegistry ==
    /\ pc = "decided"
    /\ role = "primary"
    /\ LET r == import_parentchain_blocks_until_self_registry(
                    lightClient, lastSynced, regHeader, finalized)
       IN /\ r.returns
          /\ pc' = "imported"
          /\ lightClient' = r.lightClient
          /\ lastSynced' = r.header
          /\ lastOp' = [op |-> "import_until_self_registry", header |-> r.header]
    /\ UNCHANGED <<cfg, chain, uxt, signer, submitted, bootError, storeVars, ledgerVars>>
    /\ UNCHANGED <<finalized, otherRegs, regHeader, role, syncLoop, headQueue,
                   connected, eventSub, otherVars>>

\* start_worker: the parent_chain_sync_loop thread is spawned with
\* last_synced_header
StartSyncLoop ==
    /\ \/ pc = "imported"
       \/ pc = "decided" /\ role = "secondary"
    /\ pc' = "sync_loop_started"
    /\ syncLoop' = "spawned"
    /\ lastOp' = [op |-> "start_sync_loop", header |-> lastSynced]
    /\ UNCHANGED <<cfg, chain, uxt, signer, submitted, bootError, storeVars, ledgerVars>>
    /\ UNCHANGED <<finalized, otherRegs, regHeader, lightClient, lastSynced, role,
                   headQueue, connected, eventSub, otherVars>>

\* start_worker: the eventsubscriber thread is spawned and the main loop
\* is entered
SubscribeEvents ==
    /\ pc = "sync_loop_started"
    /\ pc' = "dispatching"
    /\ eventSub' = TRUE
    /\ lastOp' = [op |-> "subscribe_events"]
    /\ UNCHANGED <<cfg, chain, uxt, signer, submitted, bootError, storeVars, ledgerVars>>
    /\ UNCHANGED <<finalized, otherRegs, regHeader, lightClient, lastSynced, role,
                   syncLoop, headQueue, connected, otherVars>>

\* subscribe_to_parentchain_new_headers: api.subscribe_finalized_heads
SyncLoopSubscribe ==
    /\ syncLoop = "spawned"
    /\ \E ok \in BOOLEAN :
          /\ syncLoop' = IF ok THEN "running" ELSE "terminated"
          /\ lastOp' = [op |-> "subscribe_finalized_heads",
                        result |-> IF ok THEN "Ok" ELSE "ApiClient"]
    /\ UNCHANGED <<bootVarsOfStart, storeVars, ledgerVars>>
    /\ UNCHANGED <<finalized, otherRegs, regHeader, lightClient, lastSynced, role,
                   headQueue, connected, eventSub, otherVars>>

\* subscribe_to_parentchain_new_headers: one turn of the loop on a received
\* message
SyncLoopReceive ==
    /\ syncLoop = "running"
    /\ headQueue # <<>>
    /\ LET r == on_new_header(lightClient, lastSynced, Head(headQueue), finalized)
       IN /\ headQueue' = Tail(headQueue)
          /\ lightClient' = r.lightClient
          /\ lastSynced' = r.header
          /\ syncLoop' = IF r.result = "Ok" THEN "running" ELSE "terminated"
          /\ lastOp' = [op |-> "new_header", msg |-> Head(headQueue),
                        from |-> lastSynced, result |-> r.result]
    /\ UNCHANGED <<bootVarsOfStart, storeVars, ledgerVars>>
    /\ UNCHANGED <<finalized, otherRegs, regHeader, role, connected, eventSub, otherVars>>

\* subscribe_to_parentchain_new_headers: receiver.recv() on a channel whose
\* sender is gone and that holds no message
SyncLoopDisconnected ==
    /\ syncLoop = "running"
    /\ headQueue = <<>>
    /\ ~connected
    /\ syncLoop' = "terminated"
    /\ lastOp' = [op |-> "new_header", msg |-> [kind |-> "none", number |-> -1],
                  from |-> lastSynced, result |-> "ApiSubscriptionDisconnected"]
    /\ UNCHANGED <<bootVarsOfStart, storeVars, ledgerVars>>
    /\ UNCHANGED <<finalized, otherRegs, regHeader, lightClient, lastSynced, role,
                   headQueue, connected, eventSub, otherVars>>

\* the parentchain finalizes its next block; a subscribed node connection
\* passes the header on
FinalizeBlock ==
    /\ pc \in {"registered", "synced", "decided", "imported", "sync_loop_started", "dispatching"}
    /\ finalized < MaxBlock
    /\ Len(headQueue) < MaxQueue
    /\ finalized' = finalized + 1
    /\ headQueue' = IF syncLoop = "running" /\ connected
                    THEN Append(headQueue, [kind |-> "header", number |-> finalized + 1])
                    ELSE headQueue
    /\ lastOp' = [op |-> "finalize_block", number |-> finalized + 1]
    /\ UNCHANGED <<bootVarsOfStart, storeVars, ledgerVars>>
    /\ UNCHANGED <<otherRegs, regHeader, lightClient, lastSynced, role, syncLoop,
                   connected, eventSub, otherVars>>

\* the node connection delivers a message that is no header
GarbledHead ==
    /\ syncLoop = "running"
    /\ connected
    /\ Len(headQueue) < MaxQueue
    /\ headQueue' = Append(headQueue, [kind |-> "garbled", number |-> -1])
    /\ lastOp' = [op |-> "garbled_head"]
    /\ UNCHANGED <<bootVarsOfStart, storeVars, ledgerVars>>
    /\ UNCHANGED <<finalized, otherRegs, regHeader, lightClient, lastSynced, role,
                   syncLoop, connected, eventSub, otherVars>>

\* the node connection drops the sender of the channel
Disconnect ==
    /\ syncLoop = "running"
    /\ connected
    /\ connected' = FALSE
    /\ lastOp' = [op |-> "disconnect"]
    /\ UNCHANGED <<bootVarsOfStart, storeVars, ledgerVars>>
    /\ UNCHANGED <<finalized, otherRegs, regHeader, lightClient, lastSynced, role,
                   syncLoop, headQueue, eventSub, otherVars>>

\* the chains of the worker runs: a funded and an unfunded enclave account
WorkerChains ==
    {[free_balance |-> b, alice_free |-> MaxBalance, existential_deposit |-> 1,
      fee_details |-> [kind |-> "fee", fee |-> 1]] : b \in {0, MaxBalance}}

WorkerInit ==
    /\ pc = "init"
    /\ cfg \in [dev : BOOLEAN, skip_ra : BOOLEAN]
    /\ chain \in WorkerChains
    /\ uxt = "none"
    /\ signer = "Alice"
    /\ submitted = <<>>
    /\ bootError = "none"
    /\ finalized \in {0, 1}
    /\ otherRegs \in [1..MaxBlock -> {0, 1}]
    /\ regHeader = NoHeader
    /\ lightClient = <<>>
    /\ lastSynced = NoHeader
    /\ role = "undecided"
    /\ syncLoop = "not_started"
    /\ headQueue = <<>>
    /\ connected = TRUE
    /\ eventSub = FALSE
    /\ OthersIdle
    /\ StoreInit
    /\ state = EmptyState
    /\ incCalls = [a \in Accounts |-> 0]
    /\ lastOp = NoOp

NextWorker ==
    \/ FetchNonce \/ ObtainCredential \/ AccountFunding \/ RegisterEnclave
    \/ InitLightClient \/ DecidePrimary \/ ImportUntilSelfRegistry
    \/ StartSyncLoop \/ SubscribeEvents
    \/ SyncLoopSubscribe \/ SyncLoopReceive \/ SyncLoopDisconnected
    \/ FinalizeBlock \/ GarbledHead \/ Disconnect

SpecWorker == WorkerInit /\ [][NextWorker]_vars

(***************************************************************************)
(* Two workers registering on one parentchain that has no enclave yet      *)
(***************************************************************************)
Workers == {1, 2}

\* per block: the number of workers other than e whose registration is in it
RegsOfOthers(e) ==
    [b \in 1..MaxBlock |->
        Cardinality({o \in Workers \ {e} : enclaves[o].reg.number = b})]

RaceInit ==
    /\ BootIdle
    /\ StoreInit
    /\ state = EmptyState
    /\ incCalls = [a \in Accounts |-> 0]
    /\ lastOp = NoOp

\* both workers are started
RaceStart ==
    /\ enclaves = <<>>
    /\ enclaves' = [e \in Workers |-> [stage |-> "init", reg |-> NoHeader, role |-> "undecided"]]
    /\ lastOp' = [op |-> "start_workers"]
    /\ UNCHANGED <<bootVarsOfStart, syncVars, dispatch, threads, storeVars, ledgerVars>>

\* start_worker of one worker up to the funding step
RaceBootstrap(e) ==
    /\ enclaves # <<>>
    /\ enclaves[e].stage = "init"
    /\ enclaves' = [enclaves EXCEPT ![e].stage = "funded"]
    /\ lastOp' = [op |-> "bootstrap", worker |-> e]
    /\ UNCHANGED <<bootVarsOfStart, syncVars, dispatch, threads, storeVars, ledgerVars>>

\* send_extrinsic(xthex, XtStatus::Finalized) of one worker: the extrinsic
\* is in a block that is finalized when the call returns, either a new block
\* or the finalized head when that block holds the registration of the
\* other worker
RaceRegister(e) ==
    /\ enclaves # <<>>
    /\ enclaves[e].stage = "funded"
    /\ \E b \in 1..MaxBlock :
          /\ \/ b > finalized
             \/ b = finalized /\ \E o \in Workers \ {e} : enclaves[o].reg.number = b
          /\ enclaves' = [enclaves EXCEPT ![e].stage = "registered", ![e].reg = Header(b)]
          /\ finalized' = b
          /\ lastOp' = [op |-> "register_enclave", worker |-> e, ok |-> TRUE]
    /\ UNCHANGED <<bootVarsOfStart, otherRegs, regHeader, lightClient, lastSynced, role,
                   syncLoop, headQueue, connected, eventSub, dispatch, threads,
                   storeVars, ledgerVars>>

\* primary_validateer of one worker
RaceDecide(e) ==
    /\ enclaves # <<>>
    /\ enclaves[e].stage = "registered"
    /\ enclaves' = [enclaves EXCEPT
                       ![e].stage = "decided",
                       ![e].role = IF primary_validateer(RegsOfOthers(e), enclaves[e].reg,
                                                         enclaves[e].reg)
                                   THEN "primary" ELSE "secondary"]
    /\ lastOp' = [op |-> "primary_validateer", worker |-> e, ok |-> TRUE]
    /\ UNCHANGED <<bootVarsOfStart, syncVars, dispatch, threads, storeVars, ledgerVars>>

\* the parentchain finalizes a block without a registration
RaceFinalize ==
    /\ enclaves # <<>>
    /\ finalized < MaxBlock
    /\ finalized' = finalized + 1
    /\ lastOp' = [op |-> "finalize_block", number |-> finalized + 1]
    /\ UNCHANGED <<bootVarsOfStart, otherRegs, regHeader, lightClient, lastSynced, role,
                   syncLoop, headQueue, connected, eventSub, otherVars,
                   storeVars, ledgerVars>>

NextRace ==
    \/ RaceStart
    \/ \E e \in Workers : RaceBootstrap(e)
    \/ \E e \in Workers : RaceRegister(e)
    \/ \E e \in Workers : RaceDecide(e)
    \/ RaceFinalize

SpecRace == RaceInit /\ [][NextRace]_vars

(***************************************************************************)
(* EventDispatcher: the main loop of start_worker with parse_events and    *)
(* print_events (service/src/main.rs), and the event loop of the earlier   *)
(* worker (worker/src/main.rs)                                             *)
(***************************************************************************)
Ev(pallet, variant) == [pallet |-> pallet, variant |-> variant, url_utf8 |-> TRUE]

\* the event records of the model: every variant the loops match on, one
\* variant they do not know of each pallet, and an event of another pallet;
\* an AddedEnclave event may carry a url that is no UTF-8
EventRecords ==
    {Ev("Balances", v) : v \in {"Transfer", "Deposit"}}
       \cup {Ev("Teerex", v) : v \in {"AddedEnclave", "Forwarded", "ProcessedParentchainBlock",
                                       "ProposedSidechainBlock", "ShieldFunds",
                                       "UnshieldedFunds", "RemovedEnclave"}}
       \cup {[pallet |-> "Teerex", variant |-> "AddedEnclave", url_utf8 |-> FALSE]}
       \cup {Ev("Proxy", v) : v \in {"Forwarded", "CallConfirmed"}}
       \cup {Ev("Timestamp", "Set")}

RECURSIVE SeqsUpTo(_, _)
SeqsUpTo(S, n) ==
    IF n = 0 THEN {<<>>}
    ELSE SeqsUpTo(S, n - 1)
            \cup {Append(q, x) : q \in {t \in SeqsUpTo(S, n - 1) : Len(t) = n - 1}, x \in S}

\* what the event subscription sends: the hex of an encoded batch, or
\* something that does not decode
EventMessages ==
    {[kind |-> "batch", events |-> evs] : evs \in SeqsUpTo(EventRecords, MaxBatch)}
       \cup {[kind |-> "undecodable", events |-> <<>>]}

\* parse_events
parse_events(event) ==
    IF event.kind = "batch" THEN [ok |-> TRUE, events |-> event.events]
    ELSE [ok |-> FALSE, events |-> <<>>]

\* variant: the batch is left at the first event that is not matched
RECURSIVE print_events_mut_halt(_, _, _)
print_events_mut_halt(events, i, log) ==
    IF i > Len(events) THEN [log |-> log, panicked |-> FALSE]
    ELSE LET evr == events[i]
         IN IF evr.pallet = "Balances" /\ evr.variant = "Transfer"
            THEN print_events_mut_halt(events, i + 1, Append(log, "Balances.Transfer"))
            ELSE IF evr.pallet = "Teerex" /\ evr.variant = "AddedEnclave"
            THEN IF evr.url_utf8
                 THEN print_events_mut_halt(events, i + 1, Append(log, "Teerex.AddedEnclave"))
                 ELSE [log |-> Append(log, "Teerex.AddedEnclave"), panicked |-> TRUE]
            ELSE IF evr.pallet = "Teerex"
                    /\ evr.variant \in {"Forwarded", "ProcessedParentchainBlock",
                                        "ProposedSidechainBlock", "ShieldFunds",
                                        "UnshieldedFunds"}
            THEN print_events_mut_halt(events, i + 1, Append(log, "Teerex." \o evr.variant))
            ELSE [log |-> log, panicked |-> FALSE]

\* print_events: what the batch makes the worker report, event by event from
\* the i-th on; the str::from_utf8(worker_url).unwrap() of an AddedEnclave
\* event panics on a url that is no UTF-8
RECURSIVE print_events(_, _, _)
print_events(events, i, log) ==
    IF i > Len(events) THEN [log |-> log, panicked |-> FALSE]
    ELSE LET evr == events[i]
         IN IF evr.pallet = "Balances" /\ evr.variant = "Transfer"
            THEN print_events(events, i + 1, Append(log, "Balances.Transfer"))
            ELSE IF evr.pallet = "Teerex" /\ evr.variant = "AddedEnclave"
            THEN IF evr.url_utf8
                 THEN print_events(events, i + 1, Append(log, "Teerex.AddedEnclave"))
                 ELSE [log |-> Append(log, "Teerex.AddedEnclave"), panicked |-> TRUE]
            ELSE IF evr.pallet = "Teerex"
                    /\ evr.variant \in {"Forwarded", "ProcessedParentchainBlock",
                                        "ProposedSidechainBlock", "ShieldFunds",
                                        "UnshieldedFunds"}
            THEN print_events(events, i + 1, Append(log, "Teerex." \o evr.variant))
            ELSE print_events(events, i + 1, log)

\* worker/src/main.rs: the for loop over a decoded batch; a Forwarded event
\* of the proxy module is passed to process_forwarded_payload
RECURSIVE worker_events(_, _, _)
worker_events(evts, i, log) ==
    IF i > Len(evts) THEN [log |-> log, panicked |-> FALSE]
    ELSE LET evr == evts[i]
         IN IF evr.pallet = "Balances" /\ evr.variant = "Transfer"
            THEN worker_events(evts, i + 1, Append(log, "Balances.Transfer"))
            ELSE IF evr.pallet = "Proxy" /\ evr.variant = "Forwarded"
            THEN worker_events(evts, i + 1,
                               log \o <<"Proxy.Forwarded", "process_forwarded_payload">>)
            ELSE IF evr.pallet = "Proxy" /\ evr.variant = "CallConfirmed"
            THEN worker_events(evts, i + 1, Append(log, "Proxy.CallConfirmed"))
            ELSE worker_events(evts, i + 1, log)

\* the main loop is entered: line 337 of the service, line 232 of the worker
EnterMainLoop ==
    /\ dispatch.status = "not_started"
    /\ \E p \in {"service", "worker"} :
          dispatch' = [program |-> p, status |-> "running", handled |-> <<>>, batches |-> 0]
    /\ lastOp' = [op |-> "enter_main_loop"]
    /\ UNCHANGED <<bootVarsOfStart, syncVars, enclaves, threads, storeVars, ledgerVars>>

\* one turn of the main loop of start_worker on a received message
DispatchTurn ==
    /\ dispatch.program = "service"
    /\ dispatch.status = "running"
    /\ dispatch.batches < MaxBatches
    /\ \E msg \in EventMessages :
          LET parsed == parse_events(msg)
              r == IF parsed.ok THEN print_events(parsed.events, 1, <<>>)
                   ELSE [log |-> <<>>, panicked |-> FALSE]
          IN /\ dispatch' = [dispatch EXCEPT
                                !.status = IF r.panicked THEN "panicked" ELSE "running",
                                !.handled = r.log,
                                !.batches = @ + 1]
             /\ lastOp' = [op |-> "dispatch", msg |-> msg]
    /\ UNCHANGED <<bootVarsOfStart, syncVars, enclaves, threads, storeVars, ledgerVars>>

\* one turn of the main loop of start_worker in which recv_timeout ran out
DispatchTimeout ==
    /\ dispatch.program = "service"
    /\ dispatch.status = "running"
    /\ lastOp' = [op |-> "dispatch_timeout"]
    /\ UNCHANGED <<bootVars, storeVars, ledgerVars>>

\* one turn of the event loop of worker/src/main.rs
WorkerLoopTurn ==
    /\ dispatch.program = "worker"
    /\ dispatch.status = "running"
    /\ dispatch.batches < MaxBatches
    /\ \E msg \in EventMessages :
          LET r == IF msg.kind = "batch" THEN worker_events(msg.events, 1, <<>>)
                   ELSE [log |-> <<>>, panicked |-> FALSE]
          IN /\ dispatch' = [dispatch EXCEPT
                                !.status = IF r.panicked THEN "panicked" ELSE "running",
                                !.handled = r.log,
                                !.batches = @ + 1]
             /\ lastOp' = [op |-> "dispatch", msg |-> msg]
    /\ UNCHANGED <<bootVarsOfStart, syncVars, enclaves, threads, storeVars, ledgerVars>>

EventsInit == RaceInit

NextEvents == EnterMainLoop \/ DispatchTurn \/ DispatchTimeout \/ WorkerLoopTurn

SpecEvents == EventsInit /\ [][NextEvents]_vars

(***************************************************************************)
(* import_parentchain_blocks_until_self_registry, one iteration at a time, *)
(* with any implementation of SyncParentchainBlocks: the function is       *)
(* generic in its syncer, and what a sync call returns is not in its hands *)
(***************************************************************************)
\* largest block number a header of the import loop carries
MaxHeader == 5

\* variant: the loop stops one block before the registration block
import_loop_continues_mut_early(last_synced_header, register_enclave_xt_header) ==
    last_synced_header.number + 1 < register_enclave_xt_header.number

\* the condition of the while loop
import_loop_continues(last_synced_header, register_enclave_xt_header) ==
    last_synced_header.number < register_enclave_xt_header.number

\* history: some sync call of the loop returned a header whose number was
\* not larger than that of the header it was called with
Stalled == lastOp.op \in {"import_sync", "import_return"} /\ lastOp.stalled

ImportInit ==
    /\ StoreInit
    /\ OthersIdle
    /\ state = EmptyState
    /\ incCalls = [a \in Accounts |-> 0]
    /\ cfg = [dev |-> FALSE, skip_ra |-> FALSE]
    /\ chain = [free_balance |-> 0, alice_free |-> 0, existential_deposit |-> 0,
                fee_details |-> [kind |-> "fee", fee |-> 0]]
    /\ uxt = "none"
    /\ signer = "Alice"
    /\ submitted = <<>>
    /\ bootError = "none"
    /\ finalized = 0
    /\ otherRegs = <<>>
    /\ lightClient = <<>>
    /\ role = "primary"
    /\ syncLoop = "not_started"
    /\ headQueue = <<>>
    /\ connected = TRUE
    /\ eventSub = FALSE
    /\ pc = "import_loop"
    /\ \E n \in 0..MaxHeader : lastSynced = Header(n)
    /\ \E n \in 0..MaxHeader : regHeader = Header(n)
    /\ lastOp = NoOp

\* one iteration: last_synced_header = sync_parentchain(last_synced_header)
ImportLoopSync ==
    /\ pc = "import_loop"
    /\ import_loop_continues(lastSynced, regHeader)
    /\ \E n \in 0..MaxHeader :
          /\ lastSynced' = Header(n)
          /\ lastOp' = [op |-> "import_sync", from |-> lastSynced.number, to |-> n,
                        stalled |-> Stalled \/ n <= lastSynced.number]
    /\ UNCHANGED <<pc, cfg, chain, uxt, signer, submitted, bootError, storeVars, ledgerVars>>
    /\ UNCHANGED <<finalized, otherRegs, regHeader, lightClient, role, syncLoop,
                   headQueue, connected, eventSub, otherVars>>

\* the loop condition is false: Ok(last_synced_header)
ImportLoopReturn ==
    /\ pc = "import_loop"
    /\ ~import_loop_continues(lastSynced, regHeader)
    /\ pc' = "imported"
    /\ lastOp' = [op |-> "import_return", header |-> lastSynced, stalled |-> Stalled]
    /\ UNCHANGED <<cfg, chain, uxt, signer, submitted, bootError, storeVars, ledgerVars>>
    /\ UNCHANGED <<syncVars, otherVars>>

NextImport == ImportLoopSync \/ ImportLoopReturn

\* the thread of start_worker runs the loop without waiting for anything
SpecImport ==
    ImportInit /\ [][NextImport]_vars /\ WF_vars(ImportLoopSync) /\ WF_vars(ImportLoopReturn)

(***************************************************************************)
(* Two concurrent callers of one mutating operation: increment_nonce on    *)
(* one account, or provision of one nft id.  Neither stf_sgx_primitives.rs *)
(* nor keyvault.rs takes a lock.  An increment_nonce call is one step: its *)
(* storage calls act on the externalities its caller has entered.  A       *)
(* provision call is a sequence of calls to the file system.               *)
(***************************************************************************)
Callers == {1, 2}

\* the account and the nft id the two callers work on
SharedAccount == 1
SharedNft == 1

\* the share a caller provisions
ShareOf(t) == IF t = 1 THEN [x |-> 1, y |-> <<7>>] ELSE [x |-> 2, y |-> <<7, 8>>]

\* the share that may be in the vault beforehand
PriorShare == [x |-> 2, y |-> <<8>>]

ConcInit ==
    /\ BootIdle
    /\ state \in {[k \in StorageKeys |->
                     IF k = account_key_hash(SharedAccount)
                     THEN Some(encode_account_info([nonce |-> 0, data |-> d]))
                     ELSE None] : d \in AccountDatas}
    /\ incCalls = [a \in Accounts |-> 0]
    /\ \/ StoreInit
       \/ /\ fs = [p \in AllPaths |->
                     IF p = nft_sealed_file_path(SharedNft)
                     THEN SealedFile(share_to_bytes(PriorShare)) ELSE NoFile]
          /\ dirs = {".", STORAGE_PATH}
          /\ sealLog = <<>>
    /\ lastOp = NoOp

\* two threads are about to call the same operation
Spawn ==
    /\ threads = <<>>
    /\ \E kind \in {"increment_nonce", "provision"} :
          threads' = [t \in Callers |-> [kind |-> kind, pc |-> "ready", saw_file |-> FALSE]]
    /\ lastOp' = [op |-> "spawn"]
    /\ UNCHANGED <<bootVarsOfStart, syncVars, dispatch, enclaves, storeVars, ledgerVars>>

\* increment_nonce of one caller
ConcIncrement(t) ==
    /\ threads # <<>>
    /\ threads[t].kind = "increment_nonce"
    /\ threads[t].pc = "ready"
    /\ state' = increment_nonce(state, SharedAccount)
    /\ incCalls' = [incCalls EXCEPT ![SharedAccount] = @ + 1]
    /\ threads' = [threads EXCEPT ![t].pc = "done"]
    /\ lastOp' = [op |-> "increment_nonce", caller |-> t]
    /\ UNCHANGED <<bootVarsOfStart, syncVars, dispatch, enclaves, storeVars>>

\* provision and KeyvaultStorage::seal of one caller: filepath.is_file()
ConcCheckFile(t) ==
    /\ threads # <<>>
    /\ threads[t].kind = "provision"
    /\ threads[t].pc = "ready"
    /\ is_authorized("alice", SharedNft)
    /\ LET exists == is_file(fs, nft_sealed_file_path(SharedNft))
       IN threads' = [threads EXCEPT ![t].pc = IF exists THEN "backup" ELSE "ensure_dir",
                                     ![t].saw_file = exists]
    /\ lastOp' = [op |-> "is_file", caller |-> t]
    /\ UNCHANGED <<bootVarsOfStart, syncVars, dispatch, enclaves, storeVars, ledgerVars>>

\* KeyvaultStorage::seal of one caller: ensure_dir_exists
ConcEnsureDir(t) ==
    /\ threads # <<>>
    /\ threads[t].pc = "ensure_dir"
    /\ dirs' = ensure_dir_exists(dirs)
    /\ threads' = [threads EXCEPT ![t].pc = "backup"]
    /\ lastOp' = [op |-> "ensure_dir_exists", caller |-> t]
    /\ UNCHANGED <<bootVarsOfStart, syncVars, dispatch, enclaves, fs, sealLog, ledgerVars>>

\* io::seal of one caller: the copy of the blob at the path to path + ".1"
ConcBackup(t) ==
    /\ threads # <<>>
    /\ threads[t].pc = "backup"
    /\ fs' = io_seal_backup(fs, nft_sealed_file_path(SharedNft))
    /\ threads' = [threads EXCEPT ![t].pc = "write"]
    /\ lastOp' = [op |-> "io_seal_backup", caller |-> t]
    /\ UNCHANGED <<bootVarsOfStart, syncVars, dispatch, enclaves, dirs, sealLog, ledgerVars>>

\* io::seal of one caller: the sealed write, after which provision returns
ConcWrite(t) ==
    /\ threads # <<>>
    /\ threads[t].pc = "write"
    /\ LET r == io_seal_write(fs, dirs, share_to_bytes(ShareOf(t)),
                              nft_sealed_file_path(SharedNft))
       IN /\ fs' = r.fs
          /\ dirs' = r.dirs
    /\ threads' = [threads EXCEPT ![t].pc = "done"]
    /\ lastOp' = [op |-> "io_seal_write", caller |-> t]
    /\ UNCHANGED <<bootVarsOfStart, syncVars, dispatch, enclaves, sealLog, ledgerVars>>

NextConc ==
    \/ Spawn
    \/ \E t \in Callers : ConcIncrement(t)
    \/ \E t \in Callers : ConcCheckFile(t)
    \/ \E t \in Callers : ConcEnsureDir(t)
    \/ \E t \in Callers : ConcBackup(t)
    \/ \E t \in Callers : ConcWrite(t)

SpecConc == ConcInit /\ [][NextConc]_vars

(***************************************************************************)
(* Properties                                                              *)
(***************************************************************************)
\* the nonce of the record stored for an account, read from the storage
\* slot itself: 0 when the slot is empty or holds too few bytes
StoredNonce(st, who) ==
    LET slot == st[<<"System", "Account", who>>]
    IN IF slot.some /\ Len(slot.val) >= 2 THEN slot.val[1] ELSE 0

HasRecord(st, who) ==
    LET slot == st[<<"System", "Account", who>>]
    IN slot.some /\ Len(slot.val) >= 2

SuppliedNonces == 0..(MaxNonce + 1)

\* C1 (as claimed): for every account, with or without a stored record,
\* validate_nonce(acct, n) succeeds iff n equals the number of
\* increment_nonce(acct) calls made so far.
C1_NonceCountsEveryIncrement ==
    \A a \in Accounts, n \in SuppliedNonces :
        validate_nonce(state, a, n).ok <=> n = incCalls[a]

\* C1 (amended): for an account that holds a stored record (created with
\* nonce 0), validate_nonce(acct, n) succeeds iff n equals the number of
\* increment_nonce(acct) calls made so far; for an account without a stored
\* or decodable record the calls write nothing and validate_nonce succeeds
\* iff n = 0.
C1_NonceCountsIncrementsOfStoredRecord ==
    \A a \in Accounts, n \in SuppliedNonces :
        /\ validate_nonce(state, a, n).ok <=>
              n = (IF HasRecord(state, a) THEN incCalls[a] ELSE 0)
        /\ ~validate_nonce(state, a, n).ok =>
              validate_nonce(state, a, n) = InvalidNonce(n)

\* C1 witness: validate_nonce(A, 0) was refused after one increment_nonce(A)
\* on a stored record, while another account without a record has been
\* incremented as well
C1_Witness ==
    /\ lastOp.op = "validate_nonce"
    /\ lastOp.nonce = 0
    /\ lastOp.result = InvalidNonce(0)
    /\ HasRecord(state, lastOp.who)
    /\ incCalls[lastOp.who] = 1
    /\ \E b \in Accounts : ~HasRecord(state, b) /\ incCalls[b] >= 1

\* C2: validate_nonce(account, supplied) returns Ok exactly when supplied
\* equals the nonce of the stored record (0 when the record is absent or
\* undecodable), returns Err(InvalidNonce(supplied)) otherwise, and never
\* modifies the state.
C2_ValidateNonceExact ==
    [][lastOp'.op = "validate_nonce" =>
         LET expected == StoredNonce(state, lastOp'.who)
         IN /\ (lastOp'.result = StfOk) <=> (lastOp'.nonce = expected)
            /\ lastOp'.nonce # expected => lastOp'.result = InvalidNonce(lastOp'.nonce)
            /\ state' = state]_vars

\* C2 witness: a supplied nonce below the stored one was refused
C2_Witness ==
    /\ lastOp.op = "validate_nonce"
    /\ HasRecord(state, lastOp.who)
    /\ StoredNonce(state, lastOp.who) = 2
    /\ lastOp.nonce = 1
    /\ lastOp.result = InvalidNonce(1)

\* C3: applying a StatePayload whose state_hash_apriori differs from the
\* hash of the held state returns StorageHashMismatch and leaves the held
\* state as it was.
C3_AprioriMismatchLeavesState ==
    [][(/\ lastOp'.op = "apply"
        /\ lastOp'.payload.state_hash_apriori # state_hash(state))
       => (/\ lastOp'.result = "StorageHashMismatch"
           /\ state' = state)]_vars

\* C3 witness: a payload whose diff would have changed the held state was
\* refused with StorageHashMismatch
C3_Witness ==
    /\ lastOp.op = "apply"
    /\ lastOp.result = "StorageHashMismatch"
    /\ apply_state_diff(state, lastOp.payload.state_update) # state
    /\ state # EmptyState

\* C4: when the apriori check passes but the state the diff leads to does
\* not hash to state_hash_aposteriori, apply returns InvalidStorageDiff and
\* the held state is the pre-update state.
C4_AposterioriMismatchRollsBack ==
    [][(/\ lastOp'.op = "apply"
        /\ lastOp'.payload.state_hash_apriori = state_hash(state)
        /\ state_hash(apply_state_diff(state, lastOp'.payload.state_update))
              # lastOp'.payload.state_hash_aposteriori)
       => (/\ lastOp'.result = "InvalidStorageDiff"
           /\ state' = state)]_vars

\* C4 witness: a diff writing every key, each to a new content, was refused
\* with InvalidStorageDiff
C4_Witness ==
    /\ lastOp.op = "apply"
    /\ lastOp.result = "InvalidStorageDiff"
    /\ DOMAIN lastOp.payload.state_update = StorageKeys
    /\ \A k \in StorageKeys : lastOp.payload.state_update[k] # state[k]

\* the sealed file of a share, written out: "keyshare/{id}_Nft.bin"
ShareFile(nft_id) == "keyshare/" \o ToString(nft_id) \o "_Nft.bin"

\* C6: for an authorized owner and an id with no stored share check is
\* false and get is None; after provision(O, id, share) returned Ok,
\* check(O, id) is true and get(O, id) is Some(share) with the same bytes.
C6_ProvisionThenCheckAndGet ==
    /\ \A o \in Owners, id \in NFTIds :
          (is_authorized(o, id) /\ fs[ShareFile(id)] = NoFile)
             => (~check(fs, o, id) /\ get(fs, o, id) = None)
    /\ (lastOp.op = "provision" /\ lastOp.ok)
          => (/\ check(fs, lastOp.owner, lastOp.nft_id)
              /\ get(fs, lastOp.owner, lastOp.nft_id).some
              /\ get(fs, lastOp.owner, lastOp.nft_id).val = lastOp.share
              /\ share_to_bytes(get(fs, lastOp.owner, lastOp.nft_id).val)
                    = <<lastOp.share.x>> \o lastOp.share.y)

\* C6 witness: a share of two y values was provisioned for one id while the
\* other id has no stored share
C6_Witness ==
    /\ lastOp.op = "provision"
    /\ lastOp.ok
    /\ Len(lastOp.share.y) = 2
    /\ fs[ShareFile(lastOp.nft_id)].kind = "sealed"
    /\ \E id \in NFTIds : fs[ShareFile(id)] = NoFile

\* C9: provisioning a share for an id that already has a sealed share
\* succeeds, a later get returns the new share, and the backup path holds
\* the previous sealed share.
C9_OverwriteKeepsPreviousInBackup ==
    [][(/\ lastOp'.op = "provision"
        /\ fs[ShareFile(lastOp'.nft_id)].kind = "sealed")
       => (/\ lastOp'.ok
           /\ get(fs', lastOp'.owner, lastOp'.nft_id) = Some(lastOp'.share)
           /\ fs'[ShareFile(lastOp'.nft_id) \o ".1"] = fs[ShareFile(lastOp'.nft_id)])]_vars

\* C9 witness: a share was overwritten by a different one, and the backup
\* holds the share that was there before
C9_Witness ==
    /\ lastOp.op = "provision"
    /\ lastOp.ok
    /\ fs[ShareFile(lastOp.nft_id) \o ".1"].kind = "sealed"
    /\ fs[ShareFile(lastOp.nft_id) \o ".1"] # fs[ShareFile(lastOp.nft_id)]
    /\ fs[ShareFile(lastOp.nft_id)] = SealedFile(share_to_bytes(lastOp.share))

\* C7: unseal(path) after a successful seal(path, R) returns a registry with
\* the keys, the values and the block_number of R, whatever the order in
\* which the map was flattened.
C7_UnsealAfterSealRoundTrip ==
    (lastOp.op = "registry_seal" /\ lastOp.result = "Ok")
       => LET u == registry_unseal(fs, lastOp.path)
          IN /\ u.result = "Ok"
             /\ DOMAIN u.registry.registry = DOMAIN lastOp.registry.registry
             /\ \A id \in DOMAIN lastOp.registry.registry :
                   u.registry.registry[id] = lastOp.registry.registry[id]
             /\ u.registry.block_number = lastOp.registry.block_number

\* C7 witness: a registry of two entries was sealed with its map flattened
\* in an order that differs from its id index
C7_Witness ==
    /\ lastOp.op = "registry_seal"
    /\ lastOp.result = "Ok"
    /\ DOMAIN lastOp.registry.registry = NFTIds
    /\ lastOp.order # lastOp.registry.nft_ids
    /\ lastOp.registry.registry[1] # lastOp.registry.registry[2]

\* C8: after two or more successful registry seals to the same path the
\* primary path holds the payload of the last seal and path + ".1" holds the
\* payload of the seal before it; no older generation is kept.
C8_BackupHoldsPreviousSeal ==
    Len(sealLog) >= 2
       => (/\ fs[RegistryPath] = SealedFile(sealLog[2])
           /\ fs[RegistryPath \o ".1"] = SealedFile(sealLog[1])
           /\ \A p \in AllPaths \ {RegistryPath, RegistryPath \o ".1"} : fs[p] = NoFile)

\* C8 witness: two seals with different payloads have been made after an
\* earlier one
C8_Witness ==
    /\ Len(sealLog) = 2
    /\ sealLog[1] # sealLog[2]
    /\ lastOp.op = "registry_seal"
    /\ fs[RegistryPath \o ".1"].kind = "sealed"
    /\ Len(sealLog[1]) > 2

\* C10: in production mode, when the free balance of the enclave account is
\* below registration_fees x REGISTERING_FEE_FACTOR_FOR_INIT_FUNDS (the
\* saturating product account_funding computes), the start-up ends with the
\* not-enough-funds error and neither a funding transfer nor the
\* registration extrinsic is submitted.
C10_ProductionUnderfundedAborts ==
    LET product == chain.fee_details.fee * REGISTERING_FEE_FACTOR_FOR_INIT_FUNDS
        required == IF product > MaxBalance THEN MaxBalance ELSE product
    IN (~cfg.dev /\ chain.fee_details.kind = "fee" /\ chain.free_balance < required)
          => (/\ submitted = <<>>
              /\ pc \notin {"funded", "registered"}
              /\ (lastOp.op = "account_funding"
                    /\ lastOp.api.fee_details /\ lastOp.api.free_balance)
                   => (/\ pc = "aborted"
                       /\ bootError = "Custom: Enclave does not have enough funds on the parentchain to register."))

\* C10 witness: the funding step of a production run found a balance of 19
\* for a fee of 2 and the run was aborted
C10_Witness ==
    /\ ~cfg.dev
    /\ lastOp.op = "account_funding"
    /\ chain.fee_details = [kind |-> "fee", fee |-> 2]
    /\ chain.free_balance = 19
    /\ pc = "aborted"
    /\ bootError = NotEnoughFunds

\* C11 (as claimed): when two workers have bootstrapped against a chain with
\* no registered enclave, in any interleaving, exactly one of them is
\* primary, and it is the one whose registration was finalized first.
C11_ExactlyOnePrimary ==
    (enclaves # <<>> /\ \A e \in Workers : enclaves[e].stage = "decided")
       => (/\ Cardinality({e \in Workers : enclaves[e].role = "primary"}) = 1
           /\ \A e \in Workers :
                 enclaves[e].role = "primary"
                    => \A o \in Workers \ {e} : enclaves[e].reg.number < enclaves[o].reg.number)

\* the stages of start_worker in the order of its code; a panic and the
\* return after a failed funding step end the run
StageRank(p) ==
    CASE p = "init" -> 0
      [] p = "nonce_fetched" -> 1
      [] p = "credential_obtained" -> 2
      [] p = "funded" -> 3
      [] p = "registered" -> 4
      [] p = "synced" -> 5
      [] p = "decided" -> 6
      [] p = "imported" -> 7
      [] p = "sync_loop_started" -> 8
      [] p = "dispatching" -> 9
      [] OTHER -> 100

\* C12: in one run of the start-up the stages happen in the order nonce,
\* credential, funding, registration, decision on primary or secondary; a
\* stage is entered only from the one before it, so each runs at most once
\* and none is re-entered.
C12_StagesInOrder ==
    [][/\ pc' # pc =>
             /\ StageRank(pc') > StageRank(pc)
             /\ StageRank(pc') <= 6 => StageRank(pc') = StageRank(pc) + 1
       /\ role' # role => (pc = "synced" /\ pc' = "decided" /\ role = "undecided")
       /\ regHeader' # regHeader => (pc = "funded" /\ pc' = "registered")]_vars

\* C12 witness: a run went through every stage and found itself primary
C12_Witness ==
    /\ pc = "dispatching"
    /\ role = "primary"
    /\ uxt = "perform_ra"
    /\ submitted = <<"register_enclave">>

\* a stage of the start-up up to the registration failed
BootstrapFailed ==
    \/ bootError # "none"
    \/ pc \in {"aborted", "panicked"} /\ regHeader = NoHeader

\* C13: when a stage of the start-up fails (nonce, credential, funding,
\* registration) the run has stopped: the light client is not initialised,
\* the sync loop thread is not started, no event subscription is made, and
\* from then on nothing is executed or tried again.
C13_FailureStopsStartUp ==
    /\ [](BootstrapFailed =>
             /\ pc \in {"aborted", "panicked"}
             /\ regHeader = NoHeader
             /\ lightClient = <<>>
             /\ lastSynced = NoHeader
             /\ role = "undecided"
             /\ syncLoop = "not_started"
             /\ ~eventSub)
    /\ [][BootstrapFailed =>
             UNCHANGED <<pc, uxt, signer, submitted, chain, lightClient, syncLoop, eventSub>>]_vars

\* C13 witness: the registration extrinsic could not be sent after the
\* faucet had funded the account
C13_Witness ==
    /\ pc = "panicked"
    /\ lastOp.op = "register_enclave"
    /\ ~lastOp.ok
    /\ submitted = <<"balance_transfer">>
    /\ lightClient = <<>>

\* the header numbers the light client imported
Imported == {lightClient[i] : i \in DOMAIN lightClient}

\* C14: a primary worker starts its sync loop only with a last_synced
\* header numbered at least as its registration block, the light client
\* having imported every block up to there.
C14_PrimaryImportsBeforeLiveSync ==
    (role = "primary" /\ syncLoop # "not_started")
       => /\ lastSynced.number >= regHeader.number
          /\ \A n \in 0..regHeader.number : n \in Imported

\* C14 witness: the sync loop of a primary registered in block 2 runs
C14_Witness ==
    /\ role = "primary"
    /\ syncLoop = "running"
    /\ regHeader.number = 2
    /\ lastSynced.number >= 2

\* the enclaves registered up to the parent of the registration block
CountAtParent ==
    Cardinality({b \in DOMAIN otherRegs : b < regHeader.number /\ otherRegs[b] = 1})

\* C15: a worker is primary exactly when the enclave count at the parent of
\* its registration block is zero; for every other count it is secondary and
\* makes no import up to its registration.
C15_PrimaryIffNoEnclaveAtParent ==
    /\ role # "undecided" => (role = "primary" <=> CountAtParent = 0)
    /\ role = "secondary" => (pc # "imported" /\ lastOp.op # "import_until_self_registry")

\* C15 witness: a worker registered in block 3 after another enclave had
\* registered in block 2 runs as secondary
C15_Witness ==
    /\ role = "secondary"
    /\ pc = "dispatching"
    /\ regHeader.number = 3
    /\ otherRegs[1] = 0
    /\ otherRegs[2] = 1

\* C16: handling the notification of a finalized header numbered n replaces
\* last_synced by the result of sync(last_synced), whose number is at least
\* n and which the light client has imported.
C16_LiveLoopCatchesUp ==
    (lastOp.op = "new_header" /\ lastOp.msg.kind = "header")
       => /\ lastOp.result = "Ok"
          /\ lastSynced.number >= lastOp.msg.number
          /\ lastSynced.number >= lastOp.from.number
          /\ lastSynced.number \in Imported

\* C16 witness: the notification of block 2 was handled when block 3 was
\* finalized already
C16_Witness ==
    /\ lastOp.op = "new_header"
    /\ lastOp.msg = [kind |-> "header", number |-> 2]
    /\ lastSynced = Header(3)
    /\ lastOp.from.number < 2

\* C17: a message that cannot be decoded, or a disconnected channel, makes
\* the subscription loop return an error; the loop makes no further sync and
\* takes no further message.
C17_UndecodableHeaderStopsLoop ==
    /\ []((lastOp.op = "new_header" /\ lastOp.msg.kind # "header")
            => /\ lastOp.result \in {"Serialization", "ApiSubscriptionDisconnected"}
               /\ syncLoop = "terminated"
               /\ lastSynced = lastOp.from)
    /\ [][syncLoop = "terminated"
            => UNCHANGED <<syncLoop, lastSynced, lightClient, headQueue>>]_vars

\* C17 witness: the loop ended on a garbled message while the notification
\* of a finalized block was waiting behind it
C17_Witness ==
    /\ syncLoop = "terminated"
    /\ lastOp.op = "new_header"
    /\ lastOp.result = "Serialization"
    /\ headQueue # <<>>
    /\ headQueue[1].kind = "header"

\* C18: for a header that is fully synced, sync returns that header and
\* leaves the light client as it is, and a sync from the head a sync
\* returned returns the same head again.
C18_SyncIdempotent ==
    lastSynced # NoHeader
       => LET once == sync_parentchain(lightClient, lastSynced, finalized)
              twice == sync_parentchain(once.lightClient, once.header, finalized)
          IN /\ twice = once
             /\ lastSynced.number = finalized
                   => (once.header = lastSynced /\ once.lightClient = lightClient)

\* C18 witness: the sync loop has caught up to the finalized head, block 3
C18_Witness ==
    /\ lastOp.op = "new_header"
    /\ lastOp.result = "Ok"
    /\ lastSynced = Header(3)
    /\ finalized = 3

\* the events the loop of the running program has an arm for
Recognized(evr) ==
    IF dispatch.program = "service"
    THEN \/ evr.pallet = "Balances" /\ evr.variant = "Transfer"
         \/ evr.pallet = "Teerex"
               /\ evr.variant \in {"AddedEnclave", "Forwarded", "ProcessedParentchainBlock",
                                   "ProposedSidechainBlock", "ShieldFunds", "UnshieldedFunds"}
    ELSE \/ evr.pallet = "Balances" /\ evr.variant = "Transfer"
         \/ evr.pallet = "Proxy" /\ evr.variant \in {"Forwarded", "CallConfirmed"}

\* what the running program reports for a batch
Reported(events) ==
    IF dispatch.program = "service" THEN print_events(events, 1, <<>>)
    ELSE worker_events(events, 1, <<>>)

\* C19: an event of a kind the loop does not know causes no action and no
\* state change and the events after it are still processed: a batch is
\* handled as the batch without its unknown events is; the loop goes on
\* after a batch that makes no recognized handler fail, and a message that
\* does not decode is dropped with the loop going on.
C19_UnknownEventsIgnored ==
    lastOp.op = "dispatch"
       => /\ lastOp.msg.kind = "batch"
               => /\ dispatch.handled = Reported(SelectSeq(lastOp.msg.events, Recognized)).log
                  /\ (\A i \in DOMAIN lastOp.msg.events :
                         ~Recognized(lastOp.msg.events[i]) \/ lastOp.msg.events[i].url_utf8)
                        => dispatch.status = "running"
                  /\ (\A i \in DOMAIN lastOp.msg.events : ~Recognized(lastOp.msg.events[i]))
                        => dispatch.handled = <<>>
          /\ lastOp.msg.kind = "undecodable"
               => (dispatch.handled = <<>> /\ dispatch.status = "running")

\* C19 witness: the second batch held an event of an unknown pallet followed
\* by a balance transfer, which was handled
C19_Witness ==
    /\ lastOp.op = "dispatch"
    /\ lastOp.msg.kind = "batch"
    /\ lastOp.msg.events = <<Ev("Timestamp", "Set"), Ev("Balances", "Transfer")>>
    /\ dispatch.handled = <<"Balances.Transfer">>
    /\ dispatch.batches = 2
    /\ dispatch.program = "service"

\* a caller is inside its operation
InOperation(t) == threads[t].pc \notin {"ready", "done"}

\* C20 (as claimed): operations on the same account or the same sealed path
\* never interleave; after two concurrent increment_nonce calls on an
\* existing account the stored nonce is 2 higher, and after two concurrent
\* provisions of one nft id the file holds one of the two shares in full.
C20_NoInterleaving ==
    threads # <<>>
       => /\ ~(InOperation(1) /\ InOperation(2))
          /\ (\A t \in Callers : threads[t].kind = "increment_nonce" /\ threads[t].pc = "done")
                => StoredNonce(state, SharedAccount) = 2
          /\ (\A t \in Callers : threads[t].kind = "provision" /\ threads[t].pc = "done")
                => \E t \in Callers :
                      fs[nft_sealed_file_path(SharedNft)] = SealedFile(share_to_bytes(ShareOf(t)))


\* C21: for an authorized owner check(owner, id) is true exactly when a file
\* exists at the path derived from the id, be it a sealed share, a file that
\* does not authenticate or sealed bytes that are no share; a check step
\* leaves the files, the directories and the sealed contents as they were.
C21_CheckIsFileExistence ==
    /\ [](lastOp.op = "check"
            => (lastOp.result <=> fs[nft_sealed_file_path(lastOp.nft_id)].kind # "absent"))
    /\ [][lastOp'.op = "check" => UNCHANGED storeVars]_vars

\* check answered true for a file that cannot be unsealed
C21_Witness ==
    /\ lastOp.op = "check"
    /\ lastOp.result
    /\ fs[nft_sealed_file_path(lastOp.nft_id)].kind = "corrupt"

\* C22: get(owner, id) answers with an Option and nothing else: None when
\* there is no file, when the file does not authenticate and when its
\* bytes are no share, the same value in the three cases; Some(share) only
\* for a sealed file whose bytes are a share, and then that share.
C22_GetFoldsFailuresIntoNone ==
    lastOp.op = "get" =>
        LET file == fs[nft_sealed_file_path(lastOp.nft_id)]
            failing == \/ file.kind = "absent"
                       \/ file.kind = "corrupt"
                       \/ Len(file.bytes) < 2
        IN /\ failing => lastOp.result = None
           /\ ~failing => /\ lastOp.result.some
                          /\ share_to_bytes(lastOp.result.val) = file.bytes

\* get answered None for a sealed file whose bytes are no share
C22_Witness ==
    /\ lastOp.op = "get"
    /\ lastOp.result = None
    /\ fs[nft_sealed_file_path(lastOp.nft_id)] = SealedFile(ForeignBytes)


\* C23: the sealed-file path depends on the vault directory and the nft id
\* only; its file name contains the decimal digits of the id; two distinct
\* ids never get the same path in one directory.
C23_PathInjectiveAndNamesId ==
    lastOp.op = "nft_sealed_file_path" =>
        /\ lastOp.file_a = lastOp.again_a
        /\ contains(file_name(lastOp.file_a), decimal(lastOp.a))
        /\ lastOp.a # lastOp.b => lastOp.file_a # lastOp.file_b
        /\ lastOp.a = lastOp.b => lastOp.file_a = lastOp.file_b

\* two ids with the same last digit, one a prefix of the other
C23_Witness ==
    /\ lastOp.op = "nft_sealed_file_path"
    /\ lastOp.a = 1
    /\ lastOp.b = 11
    /\ lastOp.file_a # lastOp.file_b
    /\ Len(lastOp.file_b) = Len(lastOp.file_a) + 1


\* C24: when the backup copy of the previous blob fails, because there is
\* no blob yet or for another reason, and the sealed write succeeds, the
\* registry seal returns Ok and the path holds the new payload; a seal error
\* is returned only for a failed write.
C24_BackupFailureIsNotASealError ==
    lastOp.op = "registry_seal" =>
        /\ (~lastOp.backup_ok /\ lastOp.write_ok)
              => /\ lastOp.result = "Ok"
                 /\ fs[lastOp.path] = SealedFile(lastOp.payload)
        /\ lastOp.result = "SgxIoSealError" => ~lastOp.write_ok

\* a first seal: no blob was at the path, nothing was backed up, and the
\* payload is sealed
C24_Witness ==
    /\ lastOp.op = "registry_seal"
    /\ ~lastOp.backup_ok
    /\ lastOp.result = "Ok"
    /\ fs[lastOp.path] = SealedFile(lastOp.payload)
    /\ fs[BackupPath(lastOp.path)].kind = "absent"

\* C25: after seal(path, R) returned Ok on a path that held no blob, a file
\* exists at the path and a backup file exists at path + ".1" with the bytes
\* of the file.
C25_FirstSealLeavesEqualBackup ==
    [][(lastOp'.op = "registry_seal" /\ lastOp'.result = "Ok" /\ fs[RegistryPath].kind = "absent")
          => /\ fs'[RegistryPath].kind # "absent"
             /\ fs'[BackupPath(RegistryPath)].kind # "absent"
             /\ fs'[BackupPath(RegistryPath)].bytes = fs'[RegistryPath].bytes]_vars

\* C26: the registry store reports three kinds of error: unseal of a missing
\* blob or of one that does not authenticate gives the unseal error, unseal
\* of a blob that ends before the announced pairs and the block number gives
\* DecodeError, a seal whose write fails gives the seal error; whenever
\* unseal does not return Ok it returns no registry, and it returns Ok only
\* for a blob that holds all the announced pairs and the block number.
C26_RegistryErrorKinds ==
    /\ lastOp.op = "registry_unseal" =>
          LET file == fs[lastOp.path]
              whole == /\ Len(file.bytes) >= 1
                       /\ Len(file.bytes) >= 2 * file.bytes[1] + 2
              u == lastOp.unsealed
          IN /\ file.kind \in {"absent", "corrupt"} => u.result = "SgxIoUnsealError"
             /\ (file.kind = "sealed" /\ ~whole) => u.result = "DecodeError"
             /\ (file.kind = "sealed" /\ whole)
                   => /\ u.result = "Ok"
                      /\ Len(u.registry.nft_ids) = file.bytes[1]
                      /\ u.registry.block_number = file.bytes[Len(file.bytes)]
             /\ u.result # "Ok" => u.registry = NoRegistry
    /\ lastOp.op = "registry_seal" =>
          (lastOp.result = IF lastOp.write_ok THEN "Ok" ELSE "SgxIoSealError")

\* unseal of a blob cut short after a registry of two entries was sealed
C26_Witness ==
    /\ lastOp.op = "registry_unseal"
    /\ lastOp.unsealed.result = "DecodeError"
    /\ fs[lastOp.path].kind = "sealed"
    /\ fs[lastOp.path].bytes[1] = 2


C28_MockOnlyWhenSkipRa ==
    /\ uxt = "mock_register_xt" => cfg.skip_ra
    /\ uxt = "perform_ra" => ~cfg.skip_ra
    /\ pc \in {"credential_obtained", "funded", "registered", "aborted"}
          => uxt = IF cfg.skip_ra THEN "mock_register_xt" ELSE "perform_ra"
    /\ (~cfg.skip_ra /\ lastOp.op = "obtain_credential" /\ ~lastOp.ok)
          => /\ pc = "panicked"
             /\ uxt = "none"
             /\ submitted = <<>>
             /\ ~ENABLED NextBoot

\* the remote attestation of a run without skip_ra has failed
C28_Witness ==
    /\ ~cfg.skip_ra
    /\ lastOp.op = "obtain_credential"
    /\ ~lastOp.ok
    /\ pc = "panicked"


\* C30 (as claimed): at the gateway keyvault_check(owner, id) is true exactly
\* when the keyvault holds a share for id, keyvault_get(owner, id) returns
\* what the keyvault's get returns, and after keyvault_provision(owner, id,
\* share) returned Ok the keyvault holds the share and keyvault_get returns
\* Some(share).
C30_GatewayAgreesWithKeyvault ==
    /\ lastOp.op = "keyvault_check"
          => (lastOp.result <=> check(fs, lastOp.owner, lastOp.nft_id))
    /\ lastOp.op = "keyvault_get"
          => lastOp.result = get(fs, lastOp.owner, lastOp.nft_id)
    /\ (lastOp.op = "keyvault_provision" /\ lastOp.result = "Ok")
          => /\ keyvault_get(lastOp.owner, lastOp.nft_id) = Some(lastOp.share)
             /\ get(fs, lastOp.owner, lastOp.nft_id) = Some(lastOp.share)


\* C29 (as claimed): for an account with a stored record each increment_nonce
\* call changes the stored nonce from k to exactly k + 1, also when k is the
\* largest value of the Index type, and no step lowers a stored nonce.
C29_IncrementExactlyOneAtEveryValue ==
    [][lastOp'.op = "increment_nonce"
          => /\ HasRecord(state, lastOp'.who)
                   => StoredNonce(state', lastOp'.who) = StoredNonce(state, lastOp'.who) + 1
             /\ \A a \in Accounts : StoredNonce(state', a) >= StoredNonce(state, a)]_vars


\* C33: increment_nonce on an account whose storage slot is empty or holds
\* bytes that do not decode returns and leaves the whole state as it was:
\* the slot of the account and the slots of all other accounts are
\* unchanged.
C33_IncrementOnAbsentAccountIsNoOp ==
    [][(lastOp'.op = "increment_nonce" /\ ~HasRecord(state, lastOp'.who))
          => /\ state' = state
             /\ \A a \in Accounts : state'[<<"System", "Account", a>>] = state[<<"System", "Account", a>>]]_vars

\* increment_nonce has run on an account whose slot holds undecodable bytes,
\* next to an account with a record
C33_Witness ==
    /\ lastOp.op = "increment_nonce"
    /\ state[<<"System", "Account", lastOp.who>>] = Some(<<>>)
    /\ \E a \in Accounts : HasRecord(state, a)


\* C34: across the first catch-up, the import loop of a primary and the
\* live loop, the header a sync starts from is the one the sync before it
\* returned (the first starts from the header of init_light_client): the
\* held header is always the last one the light client imported, its
\* number never decreases, each sync appends exactly the headers between
\* the held header and the returned one, and the imported headers are all
\* numbers from 0 on, each once and in order.
C34_SyncChainIsMonotonicAndGapless ==
    /\ [](/\ \A i \in DOMAIN lightClient : lightClient[i] = i - 1
          /\ lastSynced # NoHeader
                => (lightClient # <<>> /\ lastSynced.number = lightClient[Len(lightClient)]))
    /\ [][/\ lastSynced'.number >= lastSynced.number
          /\ (lastSynced # NoHeader /\ lightClient' # lightClient)
                => lightClient' = lightClient \o HeaderRange(lastSynced.number, lastSynced'.number)]_vars

\* the live loop of a primary has synced on from the header the import up
\* to its registration had left
C34_Witness ==
    /\ role = "primary"
    /\ lastOp.op = "new_header"
    /\ lastOp.result = "Ok"
    /\ lastOp.from.number >= 1
    /\ lastOp.from.number >= regHeader.number
    /\ lastSynced.number > lastOp.from.number


\* C35: the id index of a reconstructed registry has one entry per pair of
\* the flattened sequence, the id of that pair, in the order of the
\* sequence; the set of its ids is the key set of the reconstructed map.
C35_IdIndexFollowsPairSequence ==
    lastOp.op = "recover_registry" =>
        LET pairs == lastOp.helper.registry
            recovered == lastOp.registry
        IN /\ Len(recovered.nft_ids) = Len(pairs)
           /\ \A i \in 1..Len(pairs) : recovered.nft_ids[i] = pairs[i][1]
           /\ {recovered.nft_ids[i] : i \in 1..Len(recovered.nft_ids)} = DOMAIN recovered.registry

\* a sequence whose ids are not in increasing order was recovered
C35_Witness ==
    /\ lastOp.op = "recover_registry"
    /\ Len(lastOp.helper.registry) >= 2
    /\ lastOp.helper.registry[1][1] = 2
    /\ lastOp.helper.registry[2][1] = 1
    /\ lastOp.registry.nft_ids[1] = 2
    /\ DOMAIN lastOp.registry.registry = {1, 2}


\* C36 (as claimed): no decodable event batch stops the main dispatch loop of
\* the service: after a turn on any batch, one with an AddedEnclave event
\* whose worker url is no UTF-8 included, print_events has returned and
\* the loop is running.
C36_NoBatchStopsTheLoop ==
    (dispatch.program = "service" /\ lastOp.op = "dispatch" /\ lastOp.msg.kind = "batch")
       => /\ dispatch.status = "running"
          /\ ~print_events(lastOp.msg.events, 1, <<>>).panicked


\* C37 (as claimed): after any sequence of registry seal calls to one path,
\* the backup copy and the sealed write of each call succeeding or
\* failing, the payload of the most recent successful seal is held intact
\* by the path or by path + ".1".
C37_LastSealedPayloadSurvives ==
    sealLog # <<>>
       => \/ fs[RegistryPath] = SealedFile(sealLog[Len(sealLog)])
          \/ fs[BackupPath(RegistryPath)] = SealedFile(sealLog[Len(sealLog)])


\* C38: under the reference policy the vault's outcome does not depend on
\* the owner: on the same store contents check, get and provision give any
\* two owners the same results for an nft id, so a share one owner
\* provisioned is returned to every other owner and every other owner can
\* overwrite it.
C38_VaultOutcomeIgnoresOwner ==
    /\ \A o1 \in Owners, o2 \in Owners, nft_id \in NFTIds :
          /\ check(fs, o1, nft_id) = check(fs, o2, nft_id)
          /\ get(fs, o1, nft_id) = get(fs, o2, nft_id)
          /\ \A share \in Shares :
                provision(fs, dirs, o1, nft_id, share) = provision(fs, dirs, o2, nft_id, share)
    /\ (lastOp.op = "provision" /\ lastOp.ok)
          => \A o2 \in Owners :
                /\ get(fs, o2, lastOp.nft_id) = Some(lastOp.share)
                /\ \A share \in Shares :
                      LET r == provision(fs, dirs, o2, lastOp.nft_id, share)
                      IN /\ r.ok
                         /\ get(r.fs, lastOp.owner, lastOp.nft_id) = Some(share)

\* one owner provisioned a share over the share of an nft id, and another
\* owner is handed that share and can replace it
C38_Witness ==
    /\ lastOp.op = "provision"
    /\ lastOp.ok
    /\ fs[BackupPath(nft_sealed_file_path(lastOp.nft_id))].kind = "sealed"
    /\ \E o2 \in Owners \ {lastOp.owner} :
          /\ check(fs, o2, lastOp.nft_id)
          /\ get(fs, o2, lastOp.nft_id) = Some(lastOp.share)
          /\ \E share \in Shares \ {lastOp.share} :
                provision(fs, dirs, o2, lastOp.nft_id, share).ok


\* C39 (as claimed): import_parentchain_blocks_until_self_registry returns,
\* with a header at or above the registration block, when every sync call
\* returns a header with a strictly larger number; and once a sync call
\* returned a header whose number is not larger, the loop never ends.
C39_OneStallNeverEnds ==
    /\ [](pc = "imported" => lastSynced.number >= regHeader.number)
    /\ ([]~Stalled) => <>(pc = "imported")
    /\ [](Stalled => [](pc # "imported"))

\* C39 (amended): the loop returns only a header at or above the
\* registration block, and it returns when every sync call returns a
\* header with a strictly larger number; a call that returns a header
\* below the registration block is followed by the next call, whatever
\* number it returned, and the function does not return on it.
C39_LoopEndsOnlyAtRegistration ==
    /\ [](pc = "imported" => lastSynced.number >= regHeader.number)
    /\ ([]~Stalled) => <>(pc = "imported")
    /\ [][(lastOp'.op = "import_sync" /\ lastOp'.to < regHeader.number)
             => (pc' = "import_loop" /\ import_loop_continues(lastSynced', regHeader'))]_vars

\* the loop returned after a sync call that made no progress
C39_Witness ==
    /\ pc = "imported"
    /\ lastOp.op = "import_return"
    /\ lastOp.stalled
    /\ lastSynced.number >= regHeader.number


=============================================================================
